---- MODULE Spec2Model ----
(***************************************************************************)
(* Legal case-management backend: the custom data structures of            *)
(* backend/data_structures.py and the case logic of backend/core_logic.py  *)
(* (CaseManager and AvailableCasesPool).                                   *)
(*                                                                         *)
(* Python's None is the string "None".  A fixed-size Python array          *)
(* ([None] * capacity) is a function whose DOMAIN is the set of slots      *)
(* holding a value other than None; ArrGet reads None from the others.     *)
(* A dict is a function on its keys.  The pool writes timestamps           *)
(* (datetime.now()) that the code never reads; they are left out of its    *)
(* records.  The case manager restores updated_at on undo, so its          *)
(* timestamps are kept, as readings of a clock that counts the calls.      *)
(* An exception that ends a call is the fault field of the value the call  *)
(* returned; what the call wrote before it stays written.                  *)
(*                                                                         *)
(* Spec runs the operations of AvailableCasesPool, CaseManagerSpec those   *)
(* of CaseManager; each leaves the other's state as Init set it.           *)
(***************************************************************************)
EXTENDS Integers, Sequences, FiniteSets, TLC

None == "None"
\* Python's True where it is the value of a dict key that may also be absent
True == "True"

\* ---- bounds of the model ------------------------------------------------
NumCases == 2
NumLawyers == 2
MaxEntries == 2
\* the capacity the stand-alone Stack, Queue and PriorityQueue are built with,
\* and the number of buckets of the stand-alone HashTable
Capacity == 3
TableSize == 2
\* the capacity of the stand-alone PriorityQueue, and the number of entries it
\* is given in all (its entry counter never goes back)
HeapCapacity == 4
MaxEnqueued == 5

\* case ids and lawyer ids are strings, as in the code
CaseNumbers == 1..NumCases
CaseId(i) == "CASE-" \o ToString(i)
CaseIds == {CaseId(i) : i \in CaseNumbers}
LawyerIds == {"L" \o ToString(i) : i \in 1..NumLawyers}

\* ---- program constants --------------------------------------------------
DEFAULT_CAPACITY == 1000
MAX_CASES_PER_LAWYER == 2

\* ---- arrays and dicts ---------------------------------------------------
EmptyArr == [i \in {} |-> None]

ArrGet(arr, i) == IF i \in DOMAIN arr THEN arr[i] ELSE None

ArrSet(arr, i, v) == [k \in (DOMAIN arr) \cup {i} |-> IF k = i THEN v ELSE arr[k]]

DictGet(d, k, default) == IF k \in DOMAIN d THEN d[k] ELSE default

DictSet(d, k, v) == [x \in (DOMAIN d) \cup {k} |-> IF x = k THEN v ELSE d[x]]

\* Python truthiness of the values the model uses
Truthy(v) == v \notin {None, "False", ""}

\* ---- Stack: fixed array with a top index --------------------------------
\* the slot is set back to None
ArrClear(arr, i) == [k \in (DOMAIN arr) \ {i} |-> arr[k]]

Stack_new(capacity) == [capacity |-> capacity, items |-> EmptyArr, top |-> -1]

\* what push(item) returns: False on a full stack
Stack_push_returns(s) == ~(s.top >= s.capacity - 1)

\* mutant of Stack_push: the item is stored whether the stack is full or not
Stack_push_unchecked(s, item) ==
    [s EXCEPT !.top = s.top + 1, !.items = ArrSet(s.items, s.top + 1, item)]

\* the stack after push(item); a full stack is left as it is (push returns False)
Stack_push(s, item) ==
    IF s.top >= s.capacity - 1 THEN s
    ELSE [s EXCEPT !.top = s.top + 1, !.items = ArrSet(s.items, s.top + 1, item)]

\* mutant of Stack_pop_item: the item at the bottom of the stack
Stack_pop_item_bottom(s) == IF s.top = -1 THEN None ELSE s.items[0]

\* the value pop() returns
Stack_pop_item(s) == IF s.top = -1 THEN None ELSE s.items[s.top]

\* the stack after pop()
Stack_pop(s) ==
    IF s.top = -1 THEN s
    ELSE [s EXCEPT !.items = ArrClear(s.items, s.top), !.top = s.top - 1]

\* mutant of Stack_is_empty: never reports an empty stack
Stack_is_empty_never(s) == FALSE

Stack_is_empty(s) == s.top = -1

Stack_peek(s) == IF s.top = -1 THEN None ELSE s.items[s.top]

Stack_size(s) == s.top + 1

\* ---- Queue: circular array ----------------------------------------------
Queue_new(capacity) ==
    [capacity |-> capacity, items |-> EmptyArr, front |-> -1, rear |-> -1, count |-> 0]

\* what enqueue(item) returns: False on a full queue
Queue_enqueue_returns(q) == ~(q.count >= q.capacity)

\* mutant of Queue_enqueue: a full queue takes the item over its oldest one
Queue_enqueue_overwrites(q, item) ==
    LET rear == IF q.front = -1 THEN 0 ELSE (q.rear + 1) % q.capacity
        front == IF q.front = -1 THEN 0 ELSE q.front
    IN [q EXCEPT !.front = front, !.rear = rear,
                 !.items = ArrSet(q.items, rear, item),
                 !.count = q.count + 1]

Queue_enqueue(q, item) ==
    IF q.count >= q.capacity THEN q
    ELSE LET rear == IF q.front = -1 THEN 0 ELSE (q.rear + 1) % q.capacity
             front == IF q.front = -1 THEN 0 ELSE q.front
         IN [q EXCEPT !.front = front, !.rear = rear,
                      !.items = ArrSet(q.items, rear, item),
                      !.count = q.count + 1]

\* the value dequeue() returns; a slot never written holds None
Queue_dequeue_item(q) == IF q.front = -1 THEN None ELSE ArrGet(q.items, q.front)

\* mutant of Queue_dequeue: front moves on without wrapping
Queue_dequeue_no_wrap(q) ==
    IF q.front = -1 THEN q
    ELSE IF q.count - 1 = 0
    THEN [q EXCEPT !.items = ArrClear(q.items, q.front), !.count = 0,
                   !.front = -1, !.rear = -1]
    ELSE [q EXCEPT !.items = ArrClear(q.items, q.front), !.count = q.count - 1,
                   !.front = q.front + 1]

\* the queue after dequeue()
Queue_dequeue(q) ==
    IF q.front = -1 THEN q
    ELSE IF q.count - 1 = 0
    THEN [q EXCEPT !.items = ArrClear(q.items, q.front), !.count = 0,
                   !.front = -1, !.rear = -1]
    ELSE [q EXCEPT !.items = ArrClear(q.items, q.front), !.count = q.count - 1,
                   !.front = (q.front + 1) % q.capacity]

Queue_size(q) == q.count

\* mutant of Queue_get_all: the traversal runs past the end of the array
Queue_get_all_no_wrap(q) ==
    IF q.front = -1 THEN << >>
    ELSE [k \in 1..q.count |-> ArrGet(q.items, q.front + (k - 1))]

Queue_get_all(q) ==
    IF q.front = -1 THEN << >>
    ELSE [k \in 1..q.count |-> ArrGet(q.items, (q.front + (k - 1)) % q.capacity)]

\* ---- PriorityQueue: binary min-heap of <<priority, counter, item>> -------
PriorityQueue_new(capacity) ==
    [capacity |-> capacity, heap |-> EmptyArr, heap_size |-> 0, entry_counter |-> 0]

PriorityQueue_parent(index) == (index - 1) \div 2

PriorityQueue_swap(heap, i, j) ==
    [k \in DOMAIN heap |-> IF k = i THEN heap[j] ELSE IF k = j THEN heap[i] ELSE heap[k]]

PriorityQueue_left_child(index) == 2 * index + 1

PriorityQueue_right_child(index) == 2 * index + 2

\* mutant of PriorityQueue_compare: the priority alone decides
PriorityQueue_compare_priority_only(entry1, entry2) == entry1[1] < entry2[1]

PriorityQueue_compare(entry1, entry2) ==
    IF entry1[1] # entry2[1] THEN entry1[1] < entry2[1] ELSE entry1[2] < entry2[2]

\* mutant of PriorityQueue_heapify_up: the new entry stays where it was put
PriorityQueue_heapify_up_stays(heap, index) == heap

RECURSIVE PriorityQueue_heapify_up(_, _)
PriorityQueue_heapify_up(heap, index) ==
    IF index > 0 /\ PriorityQueue_compare(heap[index], heap[PriorityQueue_parent(index)])
    THEN PriorityQueue_heapify_up(PriorityQueue_swap(heap, index, PriorityQueue_parent(index)),
                                  PriorityQueue_parent(index))
    ELSE heap

PriorityQueue_enqueue(pq, item, priority) ==
    IF pq.heap_size >= pq.capacity THEN pq
    ELSE LET entry == <<priority, pq.entry_counter, item>>
         IN [pq EXCEPT !.entry_counter = pq.entry_counter + 1,
                       !.heap = PriorityQueue_heapify_up(ArrSet(pq.heap, pq.heap_size, entry),
                                                         pq.heap_size),
                       !.heap_size = pq.heap_size + 1]

\* what enqueue(item, priority) returns: False on a full heap
PriorityQueue_enqueue_returns(pq) == ~(pq.heap_size >= pq.capacity)

\* the heap of heap_size entries after _heapify_down(index)
RECURSIVE PriorityQueue_heapify_down(_, _, _)
PriorityQueue_heapify_down(heap, heap_size, index) ==
    LET left == PriorityQueue_left_child(index)
        right == PriorityQueue_right_child(index)
        first == IF left < heap_size /\ PriorityQueue_compare(heap[left], heap[index])
                 THEN left ELSE index
        smallest == IF right < heap_size /\ PriorityQueue_compare(heap[right], heap[first])
                    THEN right ELSE first
    IN IF smallest # index
       THEN PriorityQueue_heapify_down(PriorityQueue_swap(heap, index, smallest),
                                       heap_size, smallest)
       ELSE heap

\* the value dequeue() returns
PriorityQueue_dequeue_item(pq) == IF pq.heap_size = 0 THEN None ELSE pq.heap[0][3]

PriorityQueue_peek(pq) == IF pq.heap_size = 0 THEN None ELSE pq.heap[0][3]

\* the priority queue after dequeue()
PriorityQueue_dequeue(pq) ==
    IF pq.heap_size = 0 THEN pq
    ELSE LET heap_size == pq.heap_size - 1
         IN IF heap_size > 0
            THEN [pq EXCEPT !.heap_size = heap_size,
                            !.heap = PriorityQueue_heapify_down(
                                         ArrClear(ArrSet(pq.heap, 0, pq.heap[heap_size]),
                                                  heap_size),
                                         heap_size, 0)]
            ELSE [pq EXCEPT !.heap_size = heap_size, !.heap = ArrClear(pq.heap, 0)]

\* one inner loop of the bubble sort: j runs from the given j up to lim
RECURSIVE BubblePass(_, _, _)
BubblePass(entries, j, lim) ==
    IF j > lim THEN entries
    ELSE BubblePass(IF ~PriorityQueue_compare(entries[j], entries[j + 1])
                    THEN [entries EXCEPT ![j] = entries[j + 1], ![j + 1] = entries[j]]
                    ELSE entries,
                    j + 1, lim)

\* the outer loop: i runs from the given i up to n - 1
RECURSIVE BubbleSort(_, _)
BubbleSort(entries, i) ==
    IF i > Len(entries) - 1 THEN entries
    ELSE BubbleSort(BubblePass(entries, 1, Len(entries) - i - 1), i + 1)

\* mutant of PriorityQueue_get_all: the items in the order of the heap array
PriorityQueue_get_all_unsorted(pq) ==
    IF pq.heap_size = 0 THEN << >>
    ELSE [k \in 1..pq.heap_size |-> pq.heap[k - 1][3]]

PriorityQueue_get_all(pq) ==
    IF pq.heap_size = 0 THEN << >>
    ELSE LET entries == [k \in 1..pq.heap_size |-> pq.heap[k - 1]]
             sorted == BubbleSort(entries, 0)
         IN [k \in 1..pq.heap_size |-> sorted[k][3]]

\* ---- HashTable: array of chains ----------------------------------------------
\* a key is the sequence of the character codes of a string; a chain is the
\* sequence of its nodes, head first
Node(key, value) == [key |-> key, value |-> value]

HashTable_new(size) == [size |-> size, table |-> [i \in 0..(size - 1) |-> << >>], count |-> 0]

\* mutant of HashTable_hash_value: the character codes are not weighted
RECURSIVE HashTable_hash_value_unweighted(_, _)
HashTable_hash_value_unweighted(key, position) ==
    IF position > Len(key) THEN 0
    ELSE key[position] + HashTable_hash_value_unweighted(key, position + 1)

\* the sum of ord(char) * position over the characters from the given position on
RECURSIVE HashTable_hash_value(_, _)
HashTable_hash_value(key, position) ==
    IF position > Len(key) THEN 0
    ELSE key[position] * position + HashTable_hash_value(key, position + 1)

HashTable_hash(ht, key) == HashTable_hash_value(key, 1) % ht.size

\* the traversal of a chain: the place of the first node with the key, 0 if
\* there is none
HashTable_find(chain, key) ==
    IF \E i \in 1..Len(chain) : chain[i].key = key
    THEN CHOOSE i \in 1..Len(chain) :
             chain[i].key = key /\ \A j \in 1..(i - 1) : chain[j].key # key
    ELSE 0

\* mutant of HashTable_put: a new node is linked in without a look at the chain
HashTable_put_always_inserts(ht, key, value) ==
    [ht EXCEPT !.table[HashTable_hash(ht, key)] =
                   <<Node(key, value)>> \o ht.table[HashTable_hash(ht, key)],
               !.count = ht.count + 1]

\* the table after put(key, value)
HashTable_put(ht, key, value) ==
    LET index == HashTable_hash(ht, key)
        at == HashTable_find(ht.table[index], key)
    IN IF at # 0
       THEN [ht EXCEPT !.table[index][at].value = value]
       ELSE [ht EXCEPT !.table[index] = <<Node(key, value)>> \o ht.table[index],
                       !.count = ht.count + 1]

HashTable_get(ht, key) ==
    LET chain == ht.table[HashTable_hash(ht, key)]
        at == HashTable_find(chain, key)
    IN IF at # 0 THEN chain[at].value ELSE None

\* what remove(key) returns
HashTable_remove_returns(ht, key) ==
    HashTable_find(ht.table[HashTable_hash(ht, key)], key) # 0

\* mutant of HashTable_remove: the nodes behind the removed one are dropped
HashTable_remove_cuts_chain(ht, key) ==
    LET index == HashTable_hash(ht, key)
        chain == ht.table[index]
        at == HashTable_find(chain, key)
    IN IF at # 0
       THEN [ht EXCEPT !.table[index] = SubSeq(chain, 1, at - 1),
                       !.count = ht.count - 1]
       ELSE ht

\* the table after remove(key)
HashTable_remove(ht, key) ==
    LET index == HashTable_hash(ht, key)
        chain == ht.table[index]
        at == HashTable_find(chain, key)
    IN IF at # 0
       THEN [ht EXCEPT !.table[index] = SubSeq(chain, 1, at - 1)
                                            \o SubSeq(chain, at + 1, Len(chain)),
                       !.count = ht.count - 1]
       ELSE ht

\* ---- case dicts ---------------------------------------------------------
\* mutant of urgency_level_of: a hearing seven days away is not urgent
urgency_level_of_under_seven(days_until) ==
    IF days_until < 7 THEN "urgent"
    ELSE IF days_until <= 14 THEN "high"
    ELSE "normal"

\* CaseManager.create_case: the urgency bucket of a case from the days left
urgency_level_of(days_until) ==
    IF days_until <= 7 THEN "urgent"
    ELSE IF days_until <= 14 THEN "high"
    ELSE "normal"

\* The keys of a case dict that the pool reads.  create_case sets case_id and
\* urgency_level; the keys 'urgency', 'assignment_type' and
\* 'requested_lawyer_id' are read with dict.get, so an absent key is None.
CaseDict(case_id, days_until, urgency, assignment_type, requested_lawyer_id) ==
    [case_id |-> case_id, urgency_level |-> urgency_level_of(days_until),
     urgency |-> urgency, assignment_type |-> assignment_type,
     requested_lawyer_id |-> requested_lawyer_id]

\* The case store of the model: case i was filed with a hearing in 5 days when
\* i % 3 is 1 or 2 and in 30 days otherwise, and the cases with i % 3 = 2 also
\* carry the key 'urgency': True, which create_case does not set.
CaseRecord(i, assignment_type, requested_lawyer_id) ==
    CaseDict(CaseId(i), IF i % 3 = 0 THEN 30 ELSE 5, IF i % 3 = 2 THEN True ELSE None,
             assignment_type, requested_lawyer_id)

\* the numbers of the stored cases that a run with full pools works on: two
\* cases without the key 'urgency'
FullCaseNumbers == {1, 3}

\* the numbers of the stored cases that a run with several cases to a pool
\* works on: three cases without the key 'urgency' and three with it
OrderCaseNumbers == {1, 3, 4, 2, 5, 8}

\* the case record of case_id as the caller reads it from the case store
CaseData(case_id) ==
    CaseRecord(CHOOSE i \in CaseNumbers \cup FullCaseNumbers \cup OrderCaseNumbers : CaseId(i) = case_id,
               None, None)

\* the dicts a caller hands to add_to_pool: a stored case, general or with a
\* request for direct assignment to a lawyer
CaseDicts ==
    {CaseRecord(i, None, None) : i \in CaseNumbers}
    \cup {CaseRecord(i, "direct", l) : i \in CaseNumbers, l \in LawyerIds}

\* ---- CaseManager: state --------------------------------------------------------
\* case_store           CaseStore.cases: case id -> case dict (the HashTable
\*                      is read and written through put and get only)
\* case_history_stack   case id -> Stack of snapshots
\* clock                the value of datetime.now(), in ticks; every read
\*                      inside one call returns this number, and a call that
\*                      reads the clock takes one tick
\* undo_history         history variable, not program state: for each case
\*                      the (status, updates, updated_at) after creation and
\*                      after every successful update not yet undone
\* cm_ret               the last call and what it returned
VARIABLES case_store, case_history_stack, clock, undo_history, cm_ret

cm == <<case_store, case_history_stack, clock, undo_history>>

\* the value a call returned: ok is the success flag (or the boolean result),
\* value the message or outcome, fault the exception that ended the call
CmRet(op, ok, value) == [op |-> op, ok |-> ok, value |-> value, fault |-> None]
Raise(op, exception) == [op |-> op, ok |-> FALSE, value |-> None, fault |-> exception]

CaseManager_init ==
    /\ case_store = EmptyArr
    /\ case_history_stack = EmptyArr
    /\ clock = 0
    /\ undo_history = EmptyArr
    /\ cm_ret = CmRet("init", FALSE, None)

\* ---- the data structures on their own: state --------------------------------
\* One Stack, Queue, PriorityQueue and HashTable, each built by its
\* constructor with a small capacity and driven through its public methods.
\* a_stack, a_queue, a_heap, a_table   the objects
\* pushed      history variable: the items pushed and not yet popped, oldest first
\* waiting     history variable: the items enqueued and not yet dequeued, oldest first
\* entered     history variable: the <<priority, item>> pairs enqueued and
\*             not yet dequeued, in the order of arrival
\* mapping     history variable: the map from keys to values that put and
\*             remove describe
\* returned    the last call and the value it returned
VARIABLES a_stack, a_queue, a_heap, a_table, pushed, waiting, entered, mapping, returned

ds == <<a_stack, a_queue, a_heap, a_table, pushed, waiting, entered, mapping, returned>>

\* the value a call returned, under the name of its kind: an item or None
\* (value), a boolean (flag) or a list (list)
Returned(op, value) == [op |-> op, value |-> value]
ReturnedFlag(op, flag) == [op |-> op, flag |-> flag]
ReturnedList(op, list) == [op |-> op, list |-> list]
\* the bucket index _hash returned for a key
ReturnedHash(op, key, index) == [op |-> op, key |-> key, index |-> index]

DataStructures_init ==
    /\ a_stack = Stack_new(Capacity)
    /\ a_queue = Queue_new(Capacity)
    /\ a_heap = PriorityQueue_new(HeapCapacity)
    /\ a_table = HashTable_new(TableSize)
    /\ pushed = << >>
    /\ waiting = << >>
    /\ entered = << >>
    /\ mapping = EmptyArr
    /\ returned = Returned("init", None)

\* ---- AvailableCasesPool -------------------------------------------------
VARIABLES urgent_pool, normal_pool, case_assignments, lawyer_case_counts,
          pending_requests, ret

\* History of the model, not state of the program: what the pool looked like
\* before the last call when that call was a successful claim_case (phase
\* "claimed"), or before the claim_case that the last call, an unclaim_case
\* of the same case, gave back (phase "returned"); phase "none" otherwise.
VARIABLE last_claim

NoClaim == [phase |-> "none", case_id |-> None, lawyer_id |-> None,
            urgent |-> << >>, normal |-> << >>, counts |-> << >>]

pool == <<urgent_pool, normal_pool, case_assignments, lawyer_case_counts, pending_requests>>
vars == <<urgent_pool, normal_pool, case_assignments, lawyer_case_counts, pending_requests, ret,
          case_store, case_history_stack, clock, undo_history, cm_ret,
          a_stack, a_queue, a_heap, a_table, pushed, waiting, entered, mapping, returned,
          last_claim>>

\* the last call and the value it returned: (success, message) of claim_case
\* and accept_direct_request, the boolean of unclaim_case and
\* reject_direct_request (message None); add_to_pool returns nothing and
\* counts as a success
Ret(op, ok, message) == [op |-> op, ok |-> ok, message |-> message]

Init ==
    /\ urgent_pool = PriorityQueue_new(DEFAULT_CAPACITY)
    /\ normal_pool = Queue_new(DEFAULT_CAPACITY)
    /\ case_assignments = EmptyArr
    /\ lawyer_case_counts = EmptyArr
    /\ pending_requests = EmptyArr
    /\ ret = Ret("init", FALSE, None)
    /\ last_claim = NoClaim
    /\ CaseManager_init
    /\ DataStructures_init

\* number of entries held by all the queues of the pool
RECURSIVE SumCounts(_, _)
SumCounts(queues, keys) ==
    IF keys = {} THEN 0
    ELSE LET k == CHOOSE x \in keys : TRUE
         IN queues[k].count + SumCounts(queues, keys \ {k})

Entries == urgent_pool.heap_size + normal_pool.count
           + SumCounts(pending_requests, DOMAIN pending_requests)

\* mutant of Without: an in-place removal that deletes the first match only
RECURSIVE Without_first(_, _)
Without_first(cases, case_id) ==
    IF cases = << >> THEN << >>
    ELSE IF Head(cases).case_id # case_id
         THEN <<Head(cases)>> \o Without_first(Tail(cases), case_id)
         ELSE Tail(cases)

\* the elements of a sequence whose case_id is not case_id, in order
RECURSIVE Without(_, _)
Without(cases, case_id) ==
    IF cases = << >> THEN << >>
    ELSE IF Head(cases).case_id # case_id
         THEN <<Head(cases)>> \o Without(Tail(cases), case_id)
         ELSE Without(Tail(cases), case_id)

\* mutant of Queue_enqueue_all: the rebuilt queue takes the cases last to first
RECURSIVE Queue_enqueue_all_reversed(_, _)
Queue_enqueue_all_reversed(q, cases) ==
    IF cases = << >> THEN q
    ELSE Queue_enqueue(Queue_enqueue_all_reversed(q, Tail(cases)), Head(cases))

\* for c in cases: temp_pool.enqueue(c)
RECURSIVE Queue_enqueue_all(_, _)
Queue_enqueue_all(q, cases) ==
    IF cases = << >> THEN q
    ELSE Queue_enqueue_all(Queue_enqueue(q, Head(cases)), Tail(cases))

\* for c in cases: temp_pool.enqueue(c, priority=1)
RECURSIVE PriorityQueue_enqueue_all(_, _)
PriorityQueue_enqueue_all(pq, cases) ==
    IF cases = << >> THEN pq
    ELSE PriorityQueue_enqueue_all(PriorityQueue_enqueue(pq, Head(cases), 1), Tail(cases))

HasCase(cases, case_id) == \E i \in DOMAIN cases : cases[i].case_id = case_id

\* mutant of is_direct: the lawyer is read from the key 'lawyer_id', which a
\* case that nobody has claimed yet does not carry
is_direct_wrong_key(case) ==
    case.assignment_type = "direct" /\ Truthy(DictGet(case, "lawyer_id", None))

is_direct(case) == case.assignment_type = "direct" /\ Truthy(case.requested_lawyer_id)

add_to_pool(case) ==
    /\ IF is_direct(case)
       THEN LET lawyer_id == case.requested_lawyer_id
                queue == DictGet(pending_requests, lawyer_id, Queue_new(DEFAULT_CAPACITY))
                request_data == [case_id |-> case.case_id,
                                 urgency_level |-> case.urgency_level,
                                 urgency |-> case.urgency,
                                 assignment_type |-> case.assignment_type,
                                 requested_lawyer_id |-> case.requested_lawyer_id,
                                 request_status |-> "pending"]
            IN /\ pending_requests' = DictSet(pending_requests, lawyer_id,
                                              Queue_enqueue(queue, request_data))
               /\ case_assignments' = DictSet(case_assignments, case.case_id,
                                              [status |-> "pending_direct",
                                               requested_lawyer |-> lawyer_id])
               /\ UNCHANGED <<urgent_pool, normal_pool>>
       ELSE /\ IF Truthy(case.urgency)
               THEN /\ urgent_pool' = PriorityQueue_enqueue(urgent_pool, case, 1)
                    /\ UNCHANGED normal_pool
               ELSE /\ normal_pool' = Queue_enqueue(normal_pool, case)
                    /\ UNCHANGED urgent_pool
            /\ case_assignments' = DictSet(case_assignments, case.case_id,
                                           [status |-> "available", in_pool |-> TRUE])
            /\ UNCHANGED pending_requests
    /\ UNCHANGED lawyer_case_counts
    /\ ret' = Ret("add_to_pool", TRUE, None)

get_lawyer_case_count(counts, lawyer_id) == DictGet(counts, lawyer_id, 0)

\* the message of can_lawyer_claim when the lawyer is at capacity
MaxLoad == "Maximum case load reached (2 cases)"

\* mutant of can_lawyer_claim: off by one, the comparison is > instead of >=
can_lawyer_claim_gt(counts, lawyer_id) ==
    ~(DictGet(counts, lawyer_id, 0) > MAX_CASES_PER_LAWYER)

\* mutant of can_lawyer_claim: the capacity check is left out
can_lawyer_claim_always(counts, lawyer_id) == TRUE

can_lawyer_claim(counts, lawyer_id) ==
    ~(DictGet(counts, lawyer_id, 0) >= MAX_CASES_PER_LAWYER)

\* mutant of claimable: a pending direct request can be claimed from the pool
claimable_pending(status) ==
    status \in {"available", "rejected_then_available", "pending_direct"}

\* mutant of request_is_for: any lawyer may accept the request
request_is_for_any(assignment, lawyer_id) == TRUE

\* claim_case: the statuses a case can be claimed from
claimable(status) == status \in {"available", "rejected_then_available"}

\* accept_direct_request: the request was made to this lawyer
request_is_for(assignment, lawyer_id) ==
    DictGet(assignment, "requested_lawyer", None) = lawyer_id

Fail(op, message) ==
    /\ UNCHANGED pool
    /\ ret' = Ret(op, FALSE, message)

\* mutant of claim_case: a lawyer below capacity takes any known case,
\* whatever its status and wherever it is
claim_case_takes_over(case_id, lawyer_id) ==
    IF ~can_lawyer_claim(lawyer_case_counts, lawyer_id)
    THEN Fail("claim_case", MaxLoad)
    ELSE IF case_id \notin DOMAIN case_assignments
    THEN Fail("claim_case", "Case not found")
    ELSE /\ case_assignments' = DictSet(case_assignments, case_id,
                                        [status |-> "claimed", lawyer_id |-> lawyer_id])
         /\ lawyer_case_counts' =
                DictSet(lawyer_case_counts, lawyer_id,
                        DictGet(lawyer_case_counts, lawyer_id, 0) + 1)
         /\ UNCHANGED <<urgent_pool, normal_pool, pending_requests>>
         /\ ret' = Ret("claim_case", TRUE, "Case claimed successfully")

claim_case(case_id, lawyer_id) ==
    IF ~can_lawyer_claim(lawyer_case_counts, lawyer_id)
    THEN Fail("claim_case", MaxLoad)
    ELSE IF case_id \notin DOMAIN case_assignments
    THEN Fail("claim_case", "Case not found")
    ELSE IF ~claimable(case_assignments[case_id].status)
    THEN Fail("claim_case", "Case not available")
    ELSE LET urgent_cases == PriorityQueue_get_all(urgent_pool)
             normal_cases == Queue_get_all(normal_pool)
             in_urgent == HasCase(urgent_cases, case_id)
             in_normal == HasCase(normal_cases, case_id)
         IN IF ~in_urgent /\ ~in_normal
            THEN Fail("claim_case", "Case not in pool")
            ELSE /\ IF in_urgent
                    THEN /\ urgent_pool' = PriorityQueue_enqueue_all(
                                               PriorityQueue_new(DEFAULT_CAPACITY),
                                               Without(urgent_cases, case_id))
                         /\ UNCHANGED normal_pool
                    ELSE /\ normal_pool' = Queue_enqueue_all(
                                               Queue_new(DEFAULT_CAPACITY),
                                               Without(normal_cases, case_id))
                         /\ UNCHANGED urgent_pool
                 /\ case_assignments' = DictSet(case_assignments, case_id,
                                                [status |-> "claimed", lawyer_id |-> lawyer_id])
                 /\ lawyer_case_counts' =
                        DictSet(lawyer_case_counts, lawyer_id,
                                DictGet(lawyer_case_counts, lawyer_id, 0) + 1)
                 /\ UNCHANGED pending_requests
                 /\ ret' = Ret("claim_case", TRUE, "Case claimed successfully")

\* mutant of Max0: the count a lawyer is left with is never below one
Max0_at_least_one(n) == IF n < 1 THEN 1 ELSE n

\* max(0, n) of Python
Max0(n) == IF n < 0 THEN 0 ELSE n

unclaim_case(case_id, case_data) ==
    IF case_id \notin DOMAIN case_assignments
    THEN Fail("unclaim_case", None)
    ELSE IF case_assignments[case_id].status # "claimed"
    THEN Fail("unclaim_case", None)
    ELSE LET lawyer_id == DictGet(case_assignments[case_id], "lawyer_id", None)
         IN /\ lawyer_case_counts' =
                   IF Truthy(lawyer_id) /\ lawyer_id \in DOMAIN lawyer_case_counts
                   THEN [lawyer_case_counts EXCEPT
                             ![lawyer_id] = Max0(lawyer_case_counts[lawyer_id] - 1)]
                   ELSE lawyer_case_counts
            /\ IF Truthy(case_data.urgency)
               THEN /\ urgent_pool' = PriorityQueue_enqueue(urgent_pool, case_data, 1)
                    /\ UNCHANGED normal_pool
               ELSE /\ normal_pool' = Queue_enqueue(normal_pool, case_data)
                    /\ UNCHANGED urgent_pool
            /\ case_assignments' = [case_assignments EXCEPT
                                        ![case_id] = [status |-> "available", in_pool |-> TRUE]]
            /\ UNCHANGED pending_requests
            /\ ret' = Ret("unclaim_case", TRUE, None)

accept_direct_request(case_id, lawyer_id) ==
    IF ~can_lawyer_claim(lawyer_case_counts, lawyer_id)
    THEN Fail("accept_direct_request", MaxLoad)
    ELSE IF case_id \notin DOMAIN case_assignments
    THEN Fail("accept_direct_request", "Case not found")
    ELSE IF case_assignments[case_id].status # "pending_direct"
    THEN Fail("accept_direct_request", "Not a pending request")
    ELSE IF ~request_is_for(case_assignments[case_id], lawyer_id)
    THEN Fail("accept_direct_request", "Request not for this lawyer")
    ELSE /\ pending_requests' =
                IF lawyer_id \in DOMAIN pending_requests
                THEN [pending_requests EXCEPT
                          ![lawyer_id] = Queue_enqueue_all(
                                             Queue_new(DEFAULT_CAPACITY),
                                             Without(Queue_get_all(pending_requests[lawyer_id]),
                                                     case_id))]
                ELSE pending_requests
         /\ case_assignments' = [case_assignments EXCEPT
                                     ![case_id] = [status |-> "claimed", lawyer_id |-> lawyer_id,
                                                   assignment_type |-> "direct"]]
         /\ lawyer_case_counts' =
                DictSet(lawyer_case_counts, lawyer_id,
                        DictGet(lawyer_case_counts, lawyer_id, 0) + 1)
         /\ UNCHANGED <<urgent_pool, normal_pool>>
         /\ ret' = Ret("accept_direct_request", TRUE, "Request accepted")

reject_direct_request(case_id, lawyer_id, case_data) ==
    IF case_id \notin DOMAIN case_assignments
    THEN Fail("reject_direct_request", None)
    ELSE IF case_assignments[case_id].status # "pending_direct"
    THEN Fail("reject_direct_request", None)
    ELSE /\ pending_requests' =
                IF lawyer_id \in DOMAIN pending_requests
                THEN [pending_requests EXCEPT
                          ![lawyer_id] = Queue_enqueue_all(
                                             Queue_new(DEFAULT_CAPACITY),
                                             Without(Queue_get_all(pending_requests[lawyer_id]),
                                                     case_id))]
                ELSE pending_requests
         /\ IF Truthy(case_data.urgency)
            THEN /\ urgent_pool' = PriorityQueue_enqueue(urgent_pool, case_data, 1)
                 /\ UNCHANGED normal_pool
            ELSE /\ normal_pool' = Queue_enqueue(normal_pool, case_data)
                 /\ UNCHANGED urgent_pool
         /\ case_assignments' = [case_assignments EXCEPT
                                     ![case_id] = [status |-> "rejected_then_available",
                                                   rejected_by |-> lawyer_id,
                                                   in_pool |-> TRUE]]
         /\ UNCHANGED lawyer_case_counts
         /\ ret' = Ret("reject_direct_request", TRUE, None)

\* The calls the model makes are those that leave the queues of the pool with
\* at most max_entries entries: a call that enqueues (add_to_pool, an
\* unclaim_case of a claimed case, a reject_direct_request of a pending case
\* that takes no entry out of the lawyer's queue) is made while there are fewer.
RoomToAdd(max_entries) == Entries < max_entries

RoomToUnclaim(case_id, max_entries) ==
    IF case_id \notin DOMAIN case_assignments THEN TRUE
    ELSE IF case_assignments[case_id].status # "claimed" THEN TRUE
    ELSE Entries < max_entries

RoomToReject(case_id, lawyer_id, max_entries) ==
    IF case_id \notin DOMAIN case_assignments THEN TRUE
    ELSE IF case_assignments[case_id].status # "pending_direct" THEN TRUE
    ELSE IF lawyer_id \in DOMAIN pending_requests
    THEN HasCase(Queue_get_all(pending_requests[lawyer_id]), case_id)
         \/ Entries < max_entries
    ELSE Entries < max_entries

Next ==
    \/ \E case \in CaseDicts :
           RoomToAdd(MaxEntries) /\ add_to_pool(case) /\ UNCHANGED <<cm, cm_ret, ds, last_claim>>
    \/ \E case_id \in CaseIds, lawyer_id \in LawyerIds :
           claim_case(case_id, lawyer_id) /\ UNCHANGED <<cm, cm_ret, ds, last_claim>>
    \/ \E case_id \in CaseIds :
           /\ RoomToUnclaim(case_id, MaxEntries)
           /\ unclaim_case(case_id, CaseData(case_id))
           /\ UNCHANGED <<cm, cm_ret, ds, last_claim>>
    \/ \E case_id \in CaseIds, lawyer_id \in LawyerIds :
           accept_direct_request(case_id, lawyer_id) /\ UNCHANGED <<cm, cm_ret, ds, last_claim>>
    \/ \E case_id \in CaseIds, lawyer_id \in LawyerIds :
           /\ RoomToReject(case_id, lawyer_id, MaxEntries)
           /\ reject_direct_request(case_id, lawyer_id, CaseData(case_id))
           /\ UNCHANGED <<cm, cm_ret, ds, last_claim>>

Spec == Init /\ [][Next]_vars

\* ---- AvailableCasesPool with full pools -----------------------------------
\* The capacity the two general pools are built with by __init__: it stands
\* for DEFAULT_CAPACITY (1000 in the code), so that a full pool is within
\* reach.  Every queue built later (a pending queue, a rebuilt pool) has the
\* capacity of the code.
PoolCapacity == 1

FullPoolInit ==
    /\ urgent_pool = PriorityQueue_new(PoolCapacity)
    /\ normal_pool = Queue_new(PoolCapacity)
    /\ case_assignments = EmptyArr
    /\ lawyer_case_counts = EmptyArr
    /\ pending_requests = EmptyArr
    /\ ret = Ret("init", FALSE, None)
    /\ last_claim = NoClaim
    /\ CaseManager_init
    /\ DataStructures_init

FullCaseIds == {CaseId(i) : i \in FullCaseNumbers}

FullCaseDicts ==
    {CaseRecord(i, None, None) : i \in FullCaseNumbers}
    \cup {CaseRecord(i, "direct", l) : i \in FullCaseNumbers, l \in LawyerIds}

FullPoolNext ==
    \/ \E case \in FullCaseDicts :
           RoomToAdd(MaxEntries) /\ add_to_pool(case) /\ UNCHANGED <<cm, cm_ret, ds, last_claim>>
    \/ \E case_id \in FullCaseIds, lawyer_id \in LawyerIds :
           claim_case(case_id, lawyer_id) /\ UNCHANGED <<cm, cm_ret, ds, last_claim>>
    \/ \E case_id \in FullCaseIds :
           /\ RoomToUnclaim(case_id, MaxEntries)
           /\ unclaim_case(case_id, CaseData(case_id))
           /\ UNCHANGED <<cm, cm_ret, ds, last_claim>>
    \/ \E case_id \in FullCaseIds, lawyer_id \in LawyerIds :
           accept_direct_request(case_id, lawyer_id) /\ UNCHANGED <<cm, cm_ret, ds, last_claim>>
    \/ \E case_id \in FullCaseIds, lawyer_id \in LawyerIds :
           /\ RoomToReject(case_id, lawyer_id, MaxEntries)
           /\ reject_direct_request(case_id, lawyer_id, CaseData(case_id))
           /\ UNCHANGED <<cm, cm_ret, ds, last_claim>>

FullPoolSpec == FullPoolInit /\ [][FullPoolNext]_vars

\* ---- AvailableCasesPool with several cases to a pool ---------------------
\* the largest number of entries over all the queues of the pool in these runs
OrderEntries == 3

OrderCaseIds == {CaseId(i) : i \in OrderCaseNumbers}

\* the requests for direct assignment all go to one lawyer
OrderCaseDicts ==
    {CaseRecord(i, None, None) : i \in OrderCaseNumbers}
    \cup {CaseRecord(i, "direct", "L1") : i \in OrderCaseNumbers}

\* the pool before a claim_case(case_id, lawyer_id)
BeforeClaim(case_id, lawyer_id) ==
    [phase |-> "claimed", case_id |-> case_id, lawyer_id |-> lawyer_id,
     urgent |-> PriorityQueue_get_all(urgent_pool),
     normal |-> Queue_get_all(normal_pool),
     counts |-> [l \in LawyerIds |-> get_lawyer_case_count(lawyer_case_counts, l)]]

\* a run works on cases of one kind, all with the key 'urgency' or all
\* without it, and hands each case to add_to_pool once: a case enters the
\* pool when it is new and the cases known so far are of its kind
SameKind(case) ==
    /\ case.case_id \notin DOMAIN case_assignments
    /\ \A c \in DOMAIN case_assignments : CaseData(c).urgency = case.urgency

OrderNext ==
    \/ \E case \in OrderCaseDicts :
           /\ RoomToAdd(OrderEntries)
           /\ SameKind(case)
           /\ add_to_pool(case)
           /\ last_claim' = NoClaim
           /\ UNCHANGED <<cm, cm_ret, ds>>
    \/ \E case_id \in OrderCaseIds, lawyer_id \in LawyerIds :
           /\ claim_case(case_id, lawyer_id)
           /\ last_claim' = IF ret'.ok THEN BeforeClaim(case_id, lawyer_id) ELSE NoClaim
           /\ UNCHANGED <<cm, cm_ret, ds>>
    \/ \E case_id \in OrderCaseIds :
           /\ RoomToUnclaim(case_id, OrderEntries)
           /\ unclaim_case(case_id, CaseData(case_id))
           /\ last_claim' = IF last_claim.phase = "claimed" /\ last_claim.case_id = case_id
                            THEN [last_claim EXCEPT !.phase = "returned"]
                            ELSE NoClaim
           /\ UNCHANGED <<cm, cm_ret, ds>>
    \/ \E case_id \in OrderCaseIds, lawyer_id \in LawyerIds :
           /\ accept_direct_request(case_id, lawyer_id)
           /\ last_claim' = NoClaim
           /\ UNCHANGED <<cm, cm_ret, ds>>
    \/ \E case_id \in OrderCaseIds, lawyer_id \in LawyerIds :
           /\ RoomToReject(case_id, lawyer_id, OrderEntries)
           /\ reject_direct_request(case_id, lawyer_id, CaseData(case_id))
           /\ last_claim' = NoClaim
           /\ UNCHANGED <<cm, cm_ret, ds>>

OrderSpec == Init /\ [][OrderNext]_vars

\* ---- CaseManager: bounds -----------------------------------------------
\* bounds of the case-manager model: the number of calls that read the clock
\* (create_case, create_case_with_assignment, successful update_case_status),
\* and the capacity of an undo stack, which stands for Stack.DEFAULT_CAPACITY
\* (1000 in the code) so that a full stack is within reach
MaxClock == 3
StackCapacity == 1
\* the clock counts ticks, TicksPerDay of them to a day; hearing dates lie
\* within MaxHearingDays days of the first clock value; MaxCreated cases are
\* filed where the hearing date is free
TicksPerDay == 2
MaxHearingDays == 31
MaxCreated == 1

\* ---- CaseManager: operations ----------------------------------------
ClientIds == {"U1", "U2"}
\* the client who files the i-th case: the two clients take turns
ClientOf(i) == "U" \o ToString(2 - (i % 2))
Roles == {"client", "lawyer", "admin"}
\* the users who file status updates
Updaters == {"L1"}
Statuses == {"created", "in_review", "active", "closed"}
CmCaseIds == {CaseId(i) : i \in 1..MaxClock}

VALID_STATE_TRANSITIONS ==
    [created |-> {"in_review", "active", "closed"},
     in_review |-> {"active", "created", "closed"},
     active |-> {"closed"},
     closed |-> {}]

\* user_store.users.values(): the registered lawyers in the order the user
\* table yields them, each with its list of specialities
Speciality_of(i) == IF i % 2 = 1 THEN {"civil"} ELSE {"civil", "criminal"}
Lawyers == [i \in 1..NumLawyers |->
               [user_id |-> "L" \o ToString(i), role |-> "lawyer",
                speciality |-> Speciality_of(i)]]
Specialities == {"civil", "criminal", "tax"}

\* the days left to the hearing of the i-th case filed (the rule of CaseRecord)
DaysUntil(i) == IF i % 3 = 0 THEN 30 ELSE 5

\* the hearing date of the i-th case filed, in ticks of the clock
HearingDate(i, now) == now + DaysUntil(i) * TicksPerDay
NextHearingDate == HearingDate(Cardinality(DOMAIN case_store) + 1, clock)

\* mutant of timedelta_days: the difference itself, not its whole days
timedelta_days_not_floored(delta) == delta

\* timedelta.days: the whole days of a difference, rounded towards minus
\* infinity (a difference of minus one tick is day -1)
timedelta_days(delta) == delta \div TicksPerDay

\* f"CASE-{uuid4().hex[:8].upper()}": an id no stored case has
NewCaseId == CaseId(Cardinality(DOMAIN case_store) + 1)

\* the dict create_case builds
NewCase(case_id, client_id, hearing_date, now) ==
    LET days_until == timedelta_days(hearing_date - now)
    IN [case_id |-> case_id, client_id |-> client_id, lawyer_id |-> None,
        hearing_date |-> hearing_date,
        urgency_level |-> urgency_level_of(days_until),
        days_until_hearing |-> days_until, priority_score |-> Max0(days_until),
        status |-> "created", created_at |-> now, updated_at |-> now,
        updates |-> << >>]

Snapshot(case) ==
    [status |-> case.status, updates |-> case.updates, updated_at |-> case.updated_at]

create_case(client_id, hearing_date) ==
    /\ clock < MaxClock
    /\ LET case == NewCase(NewCaseId, client_id, hearing_date, clock)
       IN /\ case_store' = DictSet(case_store, case.case_id, case)
          /\ case_history_stack' =
                 DictSet(case_history_stack, case.case_id, Stack_new(StackCapacity))
          /\ undo_history' = DictSet(undo_history, case.case_id, <<Snapshot(case)>>)
          /\ clock' = clock + 1
          /\ cm_ret' = CmRet("create_case", TRUE, case.case_id)

\* mutant of check_access: the lawyer branch compares with the client id
check_access_client_only(store, case_id, user_id, role) ==
    IF case_id \notin DOMAIN store THEN FALSE
    ELSE IF role = "client" THEN store[case_id].client_id = user_id
    ELSE IF role = "lawyer" THEN store[case_id].client_id = user_id
    ELSE FALSE

check_access(store, case_id, user_id, role) ==
    IF case_id \notin DOMAIN store THEN FALSE
    ELSE IF role = "client" THEN store[case_id].client_id = user_id
    ELSE IF role = "lawyer" THEN store[case_id].lawyer_id = user_id
    ELSE FALSE

call_check_access(case_id, user_id, role) ==
    /\ cm_ret' = CmRet("check_access", check_access(case_store, case_id, user_id, role), None)
    /\ UNCHANGED cm

CmFail(op, message) ==
    /\ UNCHANGED cm
    /\ cm_ret' = CmRet(op, FALSE, message)

\* mutant of valid_transition: a closed case can be reopened
valid_transition_reopen(current_status, new_status) ==
    IF current_status = "closed" THEN new_status = "active"
    ELSE IF current_status \in DOMAIN VALID_STATE_TRANSITIONS
         THEN new_status \in VALID_STATE_TRANSITIONS[current_status]
         ELSE FALSE

\* new_status in VALID_STATE_TRANSITIONS.get(current_status, [])
valid_transition(current_status, new_status) ==
    IF current_status \in DOMAIN VALID_STATE_TRANSITIONS
    THEN new_status \in VALID_STATE_TRANSITIONS[current_status]
    ELSE FALSE

update_case_status(case_id, new_status, updated_by) ==
    IF case_id \notin DOMAIN case_store
    THEN CmFail("update_case_status", "Case not found")
    ELSE LET case == case_store[case_id]
             current_status == case.status
         IN IF ~valid_transition(current_status, new_status)
            THEN CmFail("update_case_status",
                        "Invalid transition from " \o current_status \o " to " \o new_status)
            ELSE IF case_id \notin DOMAIN case_history_stack
            THEN /\ cm_ret' = Raise("update_case_status", "KeyError")
                 /\ UNCHANGED cm
            ELSE LET update_entry == [timestamp |-> clock, updated_by |-> updated_by,
                                      old_status |-> current_status,
                                      new_status |-> new_status, notes |-> ""]
                     updated == [case EXCEPT !.status = new_status,
                                             !.updates = Append(case.updates, update_entry),
                                             !.updated_at = clock]
                 IN /\ clock < MaxClock
                    /\ case_history_stack' =
                           [case_history_stack EXCEPT
                                ![case_id] = Stack_push(case_history_stack[case_id],
                                                        Snapshot(case))]
                    /\ case_store' = [case_store EXCEPT ![case_id] = updated]
                    /\ undo_history' = [undo_history EXCEPT
                                            ![case_id] = Append(undo_history[case_id],
                                                                Snapshot(updated))]
                    /\ clock' = clock + 1
                    /\ cm_ret' = CmRet("update_case_status", TRUE, "Update successful")

undo_last_update(case_id) ==
    IF case_id \notin DOMAIN case_history_stack
    THEN CmFail("undo_last_update", "No history found")
    ELSE LET stack == case_history_stack[case_id]
         IN IF Stack_is_empty(stack)
            THEN CmFail("undo_last_update", "No previous state to restore")
            ELSE IF stack.top = -1
            \* pop() returned None and previous_state['status'] raises
            THEN /\ cm_ret' = Raise("undo_last_update", "TypeError")
                 /\ UNCHANGED cm
            ELSE LET previous_state == Stack_pop_item(stack)
                 IN /\ case_history_stack' =
                           [case_history_stack EXCEPT ![case_id] = Stack_pop(stack)]
                    /\ UNCHANGED clock
                    /\ IF case_id \in DOMAIN case_store
                       THEN /\ case_store' =
                                   [case_store EXCEPT
                                        ![case_id].status = previous_state.status,
                                        ![case_id].updates = previous_state.updates,
                                        ![case_id].updated_at = previous_state.updated_at]
                            /\ undo_history' =
                                   [undo_history EXCEPT
                                        ![case_id] = IF Len(undo_history[case_id]) > 1
                                                     THEN SubSeq(undo_history[case_id], 1,
                                                                 Len(undo_history[case_id]) - 1)
                                                     ELSE undo_history[case_id]]
                            /\ cm_ret' = CmRet("undo_last_update", TRUE, "Successfully undone")
                       ELSE /\ UNCHANGED <<case_store, undo_history>>
                            /\ cm_ret' = CmRet("undo_last_update", FALSE, "Case not found")

\* CaseStore.update_case(case_id, {'lawyer_id': lawyer_id})
assign_lawyer(case_id, lawyer_id) ==
    IF case_id \notin DOMAIN case_store
    THEN CmFail("assign_lawyer", None)
    ELSE /\ case_store' = [case_store EXCEPT ![case_id].lawyer_id = lawyer_id]
         /\ UNCHANGED <<case_history_stack, clock, undo_history>>
         /\ cm_ret' = CmRet("assign_lawyer", TRUE, None)

\* the attributes of a HashTable object
HashTable_attributes ==
    {"size", "table", "count", "_hash", "put", "get", "contains", "remove",
     "get_all_values"}

\* the stored cases of a lawyer that are not closed
NonClosed(store, lawyer_id) ==
    {c \in DOMAIN store : store[c].lawyer_id = lawyer_id /\ store[c].status # "closed"}

\* list(self.case_store.cases.values()) is evaluated first: cases is a
\* HashTable, and the lookup of an attribute it does not have raises
CaseManager_get_lawyer_case_count(store, lawyer_id) ==
    IF "values" \notin HashTable_attributes
    THEN [fault |-> "AttributeError"]
    ELSE [value |-> Cardinality(NonClosed(store, lawyer_id))]

call_get_lawyer_case_count(lawyer_id) ==
    /\ LET r == CaseManager_get_lawyer_case_count(case_store, lawyer_id)
       IN cm_ret' = IF "fault" \in DOMAIN r
                    THEN Raise("get_lawyer_case_count", r.fault)
                    ELSE CmRet("get_lawyer_case_count", TRUE, ToString(r.value))
    /\ UNCHANGED cm

\* the loop over all_lawyers from position i on
RECURSIVE find_available_lawyer_from(_, _, _)
find_available_lawyer_from(store, speciality, i) ==
    IF i > Len(Lawyers) THEN [value |-> None]
    ELSE IF speciality \in Lawyers[i].speciality
    THEN LET r == CaseManager_get_lawyer_case_count(store, Lawyers[i].user_id)
         IN IF "fault" \in DOMAIN r THEN r
            ELSE IF r.value < 2 THEN [value |-> Lawyers[i].user_id]
            ELSE find_available_lawyer_from(store, speciality, i + 1)
    ELSE find_available_lawyer_from(store, speciality, i + 1)

find_available_lawyer(store, speciality) == find_available_lawyer_from(store, speciality, 1)

call_find_available_lawyer(speciality) ==
    /\ LET r == find_available_lawyer(case_store, speciality)
       IN cm_ret' = IF "fault" \in DOMAIN r
                    THEN Raise("find_available_lawyer", r.fault)
                    ELSE CmRet("find_available_lawyer", Truthy(r.value), r.value)
    /\ UNCHANGED cm

create_case_with_assignment(client_id, hearing_date, selected_lawyer_id, speciality) ==
    /\ clock < MaxClock
    /\ LET case == NewCase(NewCaseId, client_id, hearing_date, clock)
           created == DictSet(case_store, case.case_id, case)
           case_count == CaseManager_get_lawyer_case_count(created, selected_lawyer_id)
           alternative == find_available_lawyer(created, speciality)
       IN /\ case_history_stack' =
                 DictSet(case_history_stack, case.case_id, Stack_new(StackCapacity))
          /\ undo_history' = DictSet(undo_history, case.case_id, <<Snapshot(case)>>)
          /\ clock' = clock + 1
          /\ IF "fault" \in DOMAIN case_count
             THEN /\ case_store' = created
                  /\ cm_ret' = Raise("create_case_with_assignment", case_count.fault)
             ELSE IF case_count.value < 2
             THEN /\ case_store' = [created EXCEPT
                                        ![case.case_id].lawyer_id = selected_lawyer_id]
                  /\ cm_ret' = CmRet("create_case_with_assignment", TRUE, "success")
             ELSE IF "fault" \in DOMAIN alternative
             THEN /\ case_store' = created
                  /\ cm_ret' = Raise("create_case_with_assignment", alternative.fault)
             ELSE IF Truthy(alternative.value)
             \* alternative['user_id'] with alternative a str
             THEN /\ case_store' = created
                  /\ cm_ret' = Raise("create_case_with_assignment", "TypeError")
             ELSE /\ case_store' = created
                  /\ cm_ret' = CmRet("create_case_with_assignment", FALSE, "all_busy")

CaseManagerNext ==
    \/ \E client_id \in {ClientOf(Cardinality(DOMAIN case_store) + 1)},
          hearing_date \in {NextHearingDate} :
           create_case(client_id, hearing_date) /\ UNCHANGED <<pool, ret, last_claim, ds>>
    \/ \E case_id \in CmCaseIds, user_id \in ClientIds \cup LawyerIds \cup {None},
          role \in Roles :
           call_check_access(case_id, user_id, role) /\ UNCHANGED <<pool, ret, last_claim, ds>>
    \/ \E case_id \in CmCaseIds, new_status \in Statuses \cup {"archived"},
          updated_by \in Updaters :
           update_case_status(case_id, new_status, updated_by) /\ UNCHANGED <<pool, ret, last_claim, ds>>
    \/ \E case_id \in CmCaseIds : undo_last_update(case_id) /\ UNCHANGED <<pool, ret, last_claim, ds>>
    \/ \E case_id \in CmCaseIds, lawyer_id \in LawyerIds \cup {None} :
           assign_lawyer(case_id, lawyer_id) /\ UNCHANGED <<pool, ret, last_claim, ds>>
    \/ \E lawyer_id \in LawyerIds :
           call_get_lawyer_case_count(lawyer_id) /\ UNCHANGED <<pool, ret, last_claim, ds>>
    \/ \E speciality \in Specialities :
           call_find_available_lawyer(speciality) /\ UNCHANGED <<pool, ret, last_claim, ds>>
    \/ \E client_id \in {ClientOf(Cardinality(DOMAIN case_store) + 1)},
          hearing_date \in {NextHearingDate},
          selected_lawyer_id \in LawyerIds, speciality \in Specialities :
           create_case_with_assignment(client_id, hearing_date, selected_lawyer_id, speciality)
           /\ UNCHANGED <<pool, ret, last_claim, ds>>

CaseManagerSpec == Init /\ [][CaseManagerNext]_vars

\* the case manager when cases get their lawyer through
\* create_case_with_assignment only
AssignmentNext ==
    \/ \E client_id \in {ClientOf(Cardinality(DOMAIN case_store) + 1)},
          hearing_date \in {NextHearingDate},
          selected_lawyer_id \in LawyerIds, speciality \in Specialities :
           create_case_with_assignment(client_id, hearing_date, selected_lawyer_id, speciality)
           /\ UNCHANGED <<pool, ret, last_claim, ds>>
    \/ \E case_id \in CmCaseIds, new_status \in Statuses \cup {"archived"},
          updated_by \in Updaters :
           update_case_status(case_id, new_status, updated_by)
           /\ UNCHANGED <<pool, ret, last_claim, ds>>
    \/ \E case_id \in CmCaseIds :
           undo_last_update(case_id) /\ UNCHANGED <<pool, ret, last_claim, ds>>

AssignmentSpec == Init /\ [][AssignmentNext]_vars

\* ---- create_case under a running clock ----------------------------------------
\* the hearing dates a client may give, in ticks: before, at and after every
\* clock value, whole days and parts of days
HearingDates == (0 - MaxHearingDays * TicksPerDay)..(MaxHearingDays * TicksPerDay + MaxClock)

\* datetime.now() moves on between two calls
time_passes ==
    /\ clock < MaxClock
    /\ clock' = clock + 1
    /\ UNCHANGED <<case_store, case_history_stack, undo_history, cm_ret>>

CreateCaseNext ==
    \/ time_passes /\ UNCHANGED <<pool, ret, last_claim, ds>>
    \/ \E hearing_date \in HearingDates :
           /\ Cardinality(DOMAIN case_store) < MaxCreated
           /\ create_case("U1", hearing_date)
           /\ UNCHANGED <<pool, ret, last_claim, ds>>

CreateCaseSpec == Init /\ [][CreateCaseNext]_vars

\* ---- Stack on its own ----------------------------------------------------------
\* the items pushed, enqueued and stored as values
Items == {"a", "b", "c"}

others == <<pool, ret, last_claim, cm, cm_ret>>

Stack_call_push(item) ==
    /\ a_stack' = Stack_push(a_stack, item)
    /\ returned' = ReturnedFlag("push", Stack_push_returns(a_stack))
    /\ pushed' = IF Len(pushed) < Capacity THEN Append(pushed, item) ELSE pushed
    /\ UNCHANGED <<a_queue, a_heap, a_table, waiting, entered, mapping>>

Stack_call_pop ==
    /\ a_stack' = Stack_pop(a_stack)
    /\ returned' = Returned("pop", Stack_pop_item(a_stack))
    /\ pushed' = IF pushed = << >> THEN pushed ELSE SubSeq(pushed, 1, Len(pushed) - 1)
    /\ UNCHANGED <<a_queue, a_heap, a_table, waiting, entered, mapping>>

Stack_call_peek ==
    /\ returned' = Returned("peek", Stack_peek(a_stack))
    /\ UNCHANGED <<a_stack, pushed, a_queue, a_heap, a_table, waiting, entered, mapping>>

StackNext ==
    \/ \E item \in Items : Stack_call_push(item) /\ UNCHANGED others
    \/ Stack_call_pop /\ UNCHANGED others
    \/ Stack_call_peek /\ UNCHANGED others

StackSpec == Init /\ [][StackNext]_vars

\* ---- Queue on its own ----------------------------------------------------------
Queue_call_enqueue(item) ==
    /\ a_queue' = Queue_enqueue(a_queue, item)
    /\ returned' = ReturnedFlag("enqueue", Queue_enqueue_returns(a_queue))
    /\ waiting' = IF Len(waiting) < Capacity THEN Append(waiting, item) ELSE waiting
    /\ UNCHANGED <<a_stack, a_heap, a_table, pushed, entered, mapping>>

Queue_call_dequeue ==
    /\ a_queue' = Queue_dequeue(a_queue)
    /\ returned' = Returned("dequeue", Queue_dequeue_item(a_queue))
    /\ waiting' = IF waiting = << >> THEN waiting ELSE Tail(waiting)
    /\ UNCHANGED <<a_stack, a_heap, a_table, pushed, entered, mapping>>

Queue_call_get_all ==
    /\ returned' = ReturnedList("get_all", Queue_get_all(a_queue))
    /\ UNCHANGED <<a_queue, waiting, a_stack, a_heap, a_table, pushed, entered, mapping>>

QueueNext ==
    \/ \E item \in Items : Queue_call_enqueue(item) /\ UNCHANGED others
    \/ Queue_call_dequeue /\ UNCHANGED others
    \/ Queue_call_get_all /\ UNCHANGED others

QueueSpec == Init /\ [][QueueNext]_vars

\* ---- the order a priority queue owes its callers -----------------------------------
\* the place in a sequence of <<priority, item>> pairs of the pair to serve
\* next: the lowest priority number, and the earliest of those
Best(pairs) ==
    CHOOSE i \in 1..Len(pairs) :
        /\ \A j \in 1..Len(pairs) : pairs[i][1] <= pairs[j][1]
        /\ \A j \in 1..(i - 1) : pairs[j][1] > pairs[i][1]

\* the pairs without the one to serve next
WithoutBest(pairs) ==
    IF pairs = << >> THEN pairs
    ELSE SubSeq(pairs, 1, Best(pairs) - 1) \o SubSeq(pairs, Best(pairs) + 1, Len(pairs))

\* ---- PriorityQueue on its own --------------------------------------------------
\* the items and the priorities given to enqueue (1 = urgent, 2 = normal)
HeapItems == {"a", "b"}
Priorities == {1, 2}

PriorityQueue_call_enqueue(item, priority) ==
    /\ a_heap.entry_counter < MaxEnqueued
    /\ a_heap' = PriorityQueue_enqueue(a_heap, item, priority)
    /\ returned' = ReturnedFlag("enqueue", PriorityQueue_enqueue_returns(a_heap))
    /\ entered' = IF Len(entered) < HeapCapacity
                  THEN Append(entered, <<priority, item>>) ELSE entered
    /\ UNCHANGED <<a_stack, a_queue, a_table, pushed, waiting, mapping>>

PriorityQueue_call_dequeue ==
    /\ a_heap' = PriorityQueue_dequeue(a_heap)
    /\ returned' = Returned("dequeue", PriorityQueue_dequeue_item(a_heap))
    /\ entered' = WithoutBest(entered)
    /\ UNCHANGED <<a_stack, a_queue, a_table, pushed, waiting, mapping>>

PriorityQueue_call_get_all ==
    /\ returned' = ReturnedList("get_all", PriorityQueue_get_all(a_heap))
    /\ UNCHANGED <<a_heap, entered, a_stack, a_queue, a_table, pushed, waiting, mapping>>

PriorityQueue_call_peek ==
    /\ returned' = Returned("peek", PriorityQueue_peek(a_heap))
    /\ UNCHANGED <<a_heap, entered, a_stack, a_queue, a_table, pushed, waiting, mapping>>

PriorityQueueNext ==
    \/ \E item \in HeapItems, priority \in Priorities :
           PriorityQueue_call_enqueue(item, priority) /\ UNCHANGED others
    \/ PriorityQueue_call_dequeue /\ UNCHANGED others
    \/ PriorityQueue_call_get_all /\ UNCHANGED others
    \/ PriorityQueue_call_peek /\ UNCHANGED others

PriorityQueueSpec == Init /\ [][PriorityQueueNext]_vars

\* ---- HashTable on its own ------------------------------------------------------
\* the keys "", "a", "b", "c" and "ba": in a table of two buckets "a" and "c"
\* share a bucket and "", "b" and "ba" share the other; in a table of three
\* "a" and "ba" share one and so do "" and "c"
Keys == {<< >>, <<97>>, <<98>>, <<99>>, <<98, 97>>}

HashTable_call_put(key, value) ==
    /\ a_table' = HashTable_put(a_table, key, value)
    /\ returned' = Returned("put", None)
    /\ mapping' = DictSet(mapping, key, value)
    /\ UNCHANGED <<a_stack, a_queue, a_heap, pushed, waiting, entered>>

HashTable_call_get(key) ==
    /\ returned' = Returned("get", HashTable_get(a_table, key))
    /\ UNCHANGED <<a_table, mapping, a_stack, a_queue, a_heap, pushed, waiting, entered>>

HashTable_call_remove(key) ==
    /\ a_table' = HashTable_remove(a_table, key)
    /\ returned' = ReturnedFlag("remove", HashTable_remove_returns(a_table, key))
    /\ mapping' = [k \in (DOMAIN mapping) \ {key} |-> mapping[k]]
    /\ UNCHANGED <<a_stack, a_queue, a_heap, pushed, waiting, entered>>

HashTable_call_hash(key) ==
    /\ returned' = ReturnedHash("_hash", key, HashTable_hash(a_table, key))
    /\ UNCHANGED <<a_table, mapping, a_stack, a_queue, a_heap, pushed, waiting, entered>>

HashTableNext ==
    \/ \E key \in Keys, value \in Items :
           HashTable_call_put(key, value) /\ UNCHANGED others
    \/ \E key \in Keys : HashTable_call_get(key) /\ UNCHANGED others
    \/ \E key \in Keys : HashTable_call_remove(key) /\ UNCHANGED others
    \/ \E key \in Keys : HashTable_call_hash(key) /\ UNCHANGED others

HashTableSpec == Init /\ [][HashTableNext]_vars


\* ---- views of the pool used by the properties ---------------------------
Urgent == PriorityQueue_get_all(urgent_pool)
Normal == Queue_get_all(normal_pool)
Pending(lawyer_id) ==
    IF lawyer_id \in DOMAIN pending_requests
    THEN Queue_get_all(pending_requests[lawyer_id]) ELSE << >>
Count(lawyer_id) == get_lawyer_case_count(lawyer_case_counts, lawyer_id)
Known(case_id) == case_id \in DOMAIN case_assignments
StatusOf(case_id) == IF Known(case_id) THEN case_assignments[case_id].status ELSE None

\* how many entries of a sequence of case dicts carry case_id
Occurs(cases, case_id) == Cardinality({i \in DOMAIN cases : cases[i].case_id = case_id})

RECURSIVE PendingOccurs(_, _)
PendingOccurs(lawyers, case_id) ==
    IF lawyers = {} THEN 0
    ELSE LET l == CHOOSE x \in lawyers : TRUE
         IN Occurs(Pending(l), case_id) + PendingOccurs(lawyers \ {l}, case_id)

\* the number of queue entries, over all structures, that hold case_id
Places(case_id) ==
    Occurs(Urgent, case_id) + Occurs(Normal, case_id) + PendingOccurs(LawyerIds, case_id)

ClaimedBy(lawyer_id) ==
    {c \in DOMAIN case_assignments :
        /\ case_assignments[c].status = "claimed"
        /\ case_assignments[c].lawyer_id = lawyer_id}

\* the case is urgent: the urgency level create_case computed for it
IsUrgent(case) == case.urgency_level = "urgent"

\* ---- the claims ---------------------------------------------------------

\* C1: every case known to the pool is in exactly one place: a claimed case is
\* in no queue, and any other case has exactly one entry over urgent_pool,
\* normal_pool and all the pending-request queues together.
C1_ExactlyOnePlace ==
    \A c \in DOMAIN case_assignments :
        IF case_assignments[c].status = "claimed" THEN Places(c) = 0 ELSE Places(c) = 1

\* C2: for every lawyer the incrementally kept count equals the number of cases
\* whose assignment record is 'claimed' with that lawyer.
C2_CountMatchesClaimed ==
    \A l \in LawyerIds : Count(l) = Cardinality(ClaimedBy(l))

\* C3: every lawyer's count stays between 0 and MAX_CASES_PER_LAWYER.
C3_CountWithinCapacity ==
    \A l \in LawyerIds : 0 <= Count(l) /\ Count(l) <= MAX_CASES_PER_LAWYER

\* a claim or an accept was refused for capacity by a lawyer holding 2 cases
C3_Witness ==
    /\ ret.ok = FALSE /\ ret.message = MaxLoad
    /\ \E l \in LawyerIds : Count(l) = MAX_CASES_PER_LAWYER

\* C4: claim_case by a lawyer whose count is already 2 returns failure
\* (maximum case load) and changes nothing in the pool.
C4_ClaimAtCapacityFails ==
    [][ret'.op = "claim_case" => \A c \in CaseIds, l \in LawyerIds :
          (Count(l) >= 2 /\ claim_case(c, l))
              => (ret'.ok = FALSE /\ ret'.message = MaxLoad /\ UNCHANGED pool)]_vars

\* claim_case was refused for capacity while a case sits available in a pool
C4_Witness ==
    /\ ret.op = "claim_case" /\ ret.ok = FALSE /\ ret.message = MaxLoad
    /\ \E c \in CaseIds : StatusOf(c) = "available" /\ Places(c) = 1

\* C5: claim_case on an unknown case, or on a case whose status is
\* 'pending_direct' or 'claimed', returns failure and changes nothing.
C5_ClaimUnavailableFails ==
    [][ret'.op = "claim_case" => \A c \in CaseIds, l \in LawyerIds :
          (StatusOf(c) \in {None, "pending_direct", "claimed"} /\ claim_case(c, l))
              => (ret'.ok = FALSE /\ UNCHANGED pool)]_vars

\* claim_case was refused because the case is pending or claimed
C5_Witness ==
    /\ ret.op = "claim_case" /\ ret.ok = FALSE /\ ret.message = "Case not available"
    /\ \E c \in CaseIds : StatusOf(c) = "pending_direct"
    /\ \E c \in CaseIds : StatusOf(c) = "claimed"

C7_Unclaim ==
    [][ret'.op = "unclaim_case" => \A c \in CaseIds :
          unclaim_case(c, CaseData(c))
              => /\ ~ret'.ok => UNCHANGED pool
                 /\ ret'.ok =>
                       /\ StatusOf(c) = "claimed"
                       /\ \A l \in LawyerIds :
                              IF case_assignments[c].lawyer_id = l
                              THEN Count(l)' = Count(l) - 1 /\ Count(l)' >= 0
                              ELSE Count(l)' = Count(l)
                       /\ case_assignments'[c].status = "available"
                       /\ IF IsUrgent(CaseData(c))
                          THEN Urgent' = Append(Urgent, CaseData(c)) /\ Normal' = Normal
                          ELSE Normal' = Append(Normal, CaseData(c)) /\ Urgent' = Urgent]_vars

\* C8: add_to_pool of a case that is not a direct request appends it to
\* urgent_pool when the case is urgent (urgency_level 'urgent' from
\* create_case) and to normal_pool otherwise, with status 'available'.
C8_AddGeneral ==
    [][ret'.op = "add_to_pool" => \A case \in CaseDicts :
          (case.assignment_type = None /\ add_to_pool(case))
              => /\ case_assignments'[case.case_id].status = "available"
                 /\ IF IsUrgent(case)
                    THEN Urgent' = Append(Urgent, case) /\ Normal' = Normal
                    ELSE Normal' = Append(Normal, case) /\ Urgent' = Urgent]_vars

\* C9: add_to_pool of a case that asks for direct assignment to lawyer l
\* appends one entry to l's pending queue and to no other structure, records
\* 'pending_direct' with requested_lawyer l, and does so whatever l's count is.
C9_AddDirect ==
    [][ret'.op = "add_to_pool" => \A case \in CaseDicts :
          (case.assignment_type = "direct" /\ case.requested_lawyer_id \in LawyerIds
             /\ add_to_pool(case))
              => /\ Len(Pending(case.requested_lawyer_id)')
                        = Len(Pending(case.requested_lawyer_id)) + 1
                 /\ SubSeq(Pending(case.requested_lawyer_id)', 1,
                           Len(Pending(case.requested_lawyer_id)))
                        = Pending(case.requested_lawyer_id)
                 /\ Pending(case.requested_lawyer_id)'[Len(Pending(case.requested_lawyer_id)')].case_id
                        = case.case_id
                 /\ \A m \in LawyerIds \ {case.requested_lawyer_id} : Pending(m)' = Pending(m)
                 /\ Urgent' = Urgent /\ Normal' = Normal
                 /\ case_assignments'[case.case_id].status = "pending_direct"
                 /\ case_assignments'[case.case_id].requested_lawyer = case.requested_lawyer_id
                 /\ UNCHANGED lawyer_case_counts]_vars

\* a direct request has just been queued for a lawyer who is at capacity: the
\* only queue entry of the pool is that request
C9_Witness ==
    /\ ret.op = "add_to_pool"
    /\ Len(Urgent) + Len(Normal) = 0
    /\ \E l \in LawyerIds, c \in CaseIds :
          /\ Count(l) = MAX_CASES_PER_LAWYER
          /\ Places(c) = 1 /\ Occurs(Pending(l), c) = 1
          /\ StatusOf(c) = "pending_direct"
          /\ \A d \in CaseIds \ {c} : Places(d) = 0

\* C10: accept_direct_request(c, l) succeeds only if l is below capacity and c
\* is 'pending_direct' with requested lawyer l; on success c leaves l's pending
\* queue, is recorded as claimed by l and l's count rises by 1; on failure
\* nothing changes.
C10_AcceptDirect ==
    [][ret'.op = "accept_direct_request" => \A c \in CaseIds, l \in LawyerIds :
          accept_direct_request(c, l)
              => /\ ret'.ok =>
                       /\ Count(l) < 2
                       /\ StatusOf(c) = "pending_direct"
                       /\ case_assignments[c].requested_lawyer = l
                       /\ Occurs(Pending(l), c) >= 1
                       /\ Occurs(Pending(l)', c) = 0
                       /\ case_assignments'[c].status = "claimed"
                       /\ case_assignments'[c].lawyer_id = l
                       /\ Count(l)' = Count(l) + 1
                 /\ ~ret'.ok => UNCHANGED pool]_vars

\* a request has just been accepted and has left the lawyer's pending queue
C10_Witness ==
    /\ ret.op = "accept_direct_request" /\ ret.ok
    /\ \E c \in CaseIds, l \in LawyerIds :
          /\ StatusOf(c) = "claimed" /\ case_assignments[c].lawyer_id = l
          /\ "assignment_type" \in DOMAIN case_assignments[c]
          /\ Places(c) = 0 /\ Count(l) >= 1

\* the case could be claimed from the general pool by a lawyer below capacity
CanBeClaimed(case_id) ==
    /\ Known(case_id) /\ claimable(StatusOf(case_id))
    /\ HasCase(Urgent, case_id) \/ HasCase(Normal, case_id)

\* C11: reject_direct_request on a 'pending_direct' case, whichever lawyer id
\* is passed, succeeds, leaves no entry of the case in the pending queue of
\* the lawyer it was requested for, appends the case exactly once to the
\* general pool (urgent_pool when the case is urgent, normal_pool otherwise),
\* sets status 'rejected_then_available', and leaves the case claimable by
\* any lawyer below capacity.
C11_RejectDirect ==
    [][ret'.op = "reject_direct_request" => \A c \in CaseIds, l \in LawyerIds :
          (StatusOf(c) = "pending_direct" /\ reject_direct_request(c, l, CaseData(c)))
              => /\ ret'.ok
                 /\ \A r \in LawyerIds :
                        case_assignments[c].requested_lawyer = r
                            => Occurs(Pending(r)', c) = 0
                 /\ IF IsUrgent(CaseData(c))
                    THEN Urgent' = Append(Urgent, CaseData(c)) /\ Normal' = Normal
                    ELSE Normal' = Append(Normal, CaseData(c)) /\ Urgent' = Urgent
                 /\ case_assignments'[c].status = "rejected_then_available"
                 /\ CanBeClaimed(c)']_vars

\* the changes of a case's assignment status that the state machine of a
\* case allows; None stands for a case the pool does not know
StatusChanges ==
    {<<None, "available">>, <<None, "pending_direct">>,
     <<"available", "claimed">>, <<"rejected_then_available", "claimed">>,
     <<"claimed", "available">>, <<"pending_direct", "claimed">>,
     <<"pending_direct", "rejected_then_available">>}

\* C33: whenever a pool operation changes the assignment status of a case,
\* the change is one of: new to available, new to pending_direct, available
\* to claimed, rejected_then_available to claimed, claimed to available,
\* pending_direct to claimed, pending_direct to rejected_then_available
C33_StatusMachine ==
    [][\A c \in CaseIds :
          StatusOf(c)' # StatusOf(c) => <<StatusOf(c), StatusOf(c)'>> \in StatusChanges]_vars

\* a list of case dicts with the entries of case_id deleted
Deleted(cases, case_id) == SelectSeq(cases, LAMBDA e : e.case_id # case_id)

\* the case ids a list of case dicts holds
IdsOf(cases) == {cases[i].case_id : i \in DOMAIN cases}

\* C34: a successful claim_case, accept_direct_request or
\* reject_direct_request takes the entries of the case out of the structure it
\* removes from (urgent_pool when the case is there, else normal_pool, for
\* claim_case; the lawyer's pending queue for the other two) and keeps every
\* other entry of it in its order: get_all() afterwards is get_all() before
\* with the entries of the case deleted.  The other structures are as they
\* were, but for the general pool that reject_direct_request appends the case to.
C34_RebuildKeepsOrder ==
    [][\A c \in OrderCaseIds, l \in LawyerIds :
          /\ (ret'.op = "claim_case" /\ ret'.ok /\ claim_case(c, l)
                 => /\ IF HasCase(Urgent, c)
                       THEN Urgent' = Deleted(Urgent, c) /\ Normal' = Normal
                       ELSE Normal' = Deleted(Normal, c) /\ Urgent' = Urgent
                    /\ \A m \in LawyerIds : Pending(m)' = Pending(m))
          /\ (ret'.op = "accept_direct_request" /\ ret'.ok /\ accept_direct_request(c, l)
                 => /\ Pending(l)' = Deleted(Pending(l), c)
                    /\ \A m \in LawyerIds \ {l} : Pending(m)' = Pending(m)
                    /\ Urgent' = Urgent
                    /\ Normal' = Normal)
          /\ (ret'.op = "reject_direct_request" /\ ret'.ok
              /\ reject_direct_request(c, l, CaseData(c))
                 => /\ Pending(l)' = Deleted(Pending(l), c)
                    /\ \A m \in LawyerIds \ {l} : Pending(m)' = Pending(m)
                    /\ IF Truthy(CaseData(c).urgency)
                       THEN Urgent' = Urgent \o <<CaseData(c)>> /\ Normal' = Normal
                       ELSE Normal' = Normal \o <<CaseData(c)>> /\ Urgent' = Urgent)]_vars

\* the second of three cases in normal_pool has just been claimed, and the
\* first and the third are left in that order
C34_Witness ==
    /\ last_claim.phase = "claimed"
    /\ Len(last_claim.normal) = 3
    /\ last_claim.normal[2].case_id = last_claim.case_id
    /\ Normal = <<last_claim.normal[1], last_claim.normal[3]>>
    /\ last_claim.normal[1].case_id # last_claim.normal[3].case_id

\* C36: a claim_case or accept_direct_request call on a case succeeds only
\* while the case is available, rejected_then_available or pending_direct,
\* and then records the case as claimed by the calling lawyer and by nobody
\* else; on a case that is claimed every such call, by whichever lawyer, fails
\* and leaves the assignments and the counts as they were, so of the calls of
\* several lawyers on one case at most the first one to meet the conditions
\* succeeds
C36_SingleHolder ==
    [][ret'.op \in {"claim_case", "accept_direct_request"} =>
          \A c \in CaseIds, l \in LawyerIds :
              (claim_case(c, l) \/ accept_direct_request(c, l)) =>
                  /\ (ret'.ok =>
                         /\ StatusOf(c) \in {"available", "rejected_then_available",
                                             "pending_direct"}
                         /\ case_assignments'[c].status = "claimed"
                         /\ case_assignments'[c].lawyer_id = l
                         /\ \A m \in LawyerIds \ {l} : c \notin ClaimedBy(m)'
                         /\ \A d \in CaseIds \ {c} :
                                Known(d) => case_assignments'[d] = case_assignments[d])
                  /\ (StatusOf(c) = "claimed" =>
                         /\ ~ret'.ok
                         /\ case_assignments' = case_assignments
                         /\ lawyer_case_counts' = lawyer_case_counts)]_vars

\* every case is claimed by L1, and a claim_case of L2, who holds no case,
\* has just failed on one of them
C36_Witness ==
    /\ ret.op = "claim_case"
    /\ ~ret.ok
    /\ ret.message = "Case not available"
    /\ Count("L2") = 0
    /\ \A c \in CaseIds : StatusOf(c) = "claimed" /\ case_assignments[c].lawyer_id = "L1"

\* C39: every case whose status is available or rejected_then_available has
\* an entry in urgent_pool or normal_pool, every case whose status is
\* pending_direct has an entry in the pending queue of its requested lawyer,
\* and no claim_case call ends with 'Case not in pool'
C39_StatusHasEntry ==
    /\ \A c \in DOMAIN case_assignments :
          /\ (StatusOf(c) \in {"available", "rejected_then_available"}
                 => HasCase(Urgent, c) \/ HasCase(Normal, c))
          /\ (StatusOf(c) = "pending_direct"
                 => HasCase(Pending(case_assignments[c].requested_lawyer), c))
    /\ ~(ret.op = "claim_case" /\ ret.message = "Case not in pool")

\* C40: an unclaim_case of case c with its stored case data right after a
\* successful claim_case(c, L) succeeds and brings back what was there before
\* the claim: the count of every lawyer, the status 'available' of the case,
\* the set of cases each pool holds and the pending queues; the pool the case
\* was in holds its other entries in their order with the case as the last
\* entry, and the other pool is as it was
C40_ClaimThenUnclaim ==
    [][\A c \in OrderCaseIds :
          (last_claim.phase = "claimed" /\ last_claim.case_id = c
           /\ unclaim_case(c, CaseData(c)))
          => /\ ret'.ok
             /\ \A l \in LawyerIds : Count(l)' = last_claim.counts[l]
             /\ StatusOf(c)' = "available"
             /\ IdsOf(Urgent') = IdsOf(last_claim.urgent)
             /\ IdsOf(Normal') = IdsOf(last_claim.normal)
             /\ IF HasCase(last_claim.urgent, c)
                THEN /\ Urgent' = Deleted(last_claim.urgent, c) \o <<CaseData(c)>>
                     /\ Normal' = last_claim.normal
                ELSE /\ Normal' = Deleted(last_claim.normal, c) \o <<CaseData(c)>>
                     /\ Urgent' = last_claim.urgent
             /\ pending_requests' = pending_requests]_vars

\* a case that was the first of three in urgent_pool has been claimed and
\* given back, and is now the last of the three
C40_Witness ==
    /\ last_claim.phase = "returned"
    /\ ret.op = "unclaim_case"
    /\ ret.ok
    /\ Len(last_claim.urgent) = 3
    /\ last_claim.urgent[1].case_id = last_claim.case_id
    /\ Len(Urgent) = 3
    /\ Urgent[3].case_id = last_claim.case_id
    /\ Urgent[1].case_id = last_claim.urgent[2].case_id

\* ---- views of the case manager used by the properties -------------------
\* the transition table as the specification states it
Allowed(current_status, new_status) ==
    \/ current_status = "created" /\ new_status \in {"in_review", "active", "closed"}
    \/ current_status = "in_review" /\ new_status \in {"active", "created", "closed"}
    \/ current_status = "active" /\ new_status = "closed"

\* the number of stored cases of a lawyer that are not closed
ActiveCount(lawyer_id) ==
    Cardinality({c \in DOMAIN case_store :
                    case_store[c].lawyer_id = lawyer_id /\ case_store[c].status # "closed"})

\* the lawyers with the speciality who hold fewer than 2 non-closed cases
FreeSpecialists(speciality) ==
    {Lawyers[i].user_id : i \in {j \in DOMAIN Lawyers :
                                    /\ speciality \in Lawyers[j].speciality
                                    /\ ActiveCount(Lawyers[j].user_id) < 2}}

\* C37: no lawyer has more than two stored cases that are not closed
C37_AtMostTwoCases ==
    \A l \in LawyerIds : Cardinality(NonClosed(case_store, l)) <= 2

\* some stored case has a lawyer
C37_SomeCaseAssigned ==
    \E c \in DOMAIN case_store : case_store[c].lawyer_id \in LawyerIds

\* C38: for every stored case the updates log has as many entries as the
\* undo stack of the case has snapshots; the entries chain (the first
\* old_status is 'created', each old_status is the new_status of the entry
\* before, each pair is in the transition table); and the status of the case
\* is the new_status of the last entry, or 'created' when the log is empty
C38_LogMatchesStack ==
    \A c \in DOMAIN case_store :
        LET updates == case_store[c].updates
        IN /\ c \in DOMAIN case_history_stack
           /\ Len(updates) = Stack_size(case_history_stack[c])
           /\ \A i \in DOMAIN updates :
                 /\ updates[i].old_status = IF i = 1 THEN "created"
                                            ELSE updates[i - 1].new_status
                 /\ valid_transition(updates[i].old_status, updates[i].new_status)
           /\ case_store[c].status = IF updates = << >> THEN "created"
                                      ELSE updates[Len(updates)].new_status

\* C12: update_case_status on a stored case succeeds exactly when the new
\* status is allowed from the current one by the table created ->
\* {in_review, active, closed}, in_review -> {active, created, closed},
\* active -> {closed}, closed -> {}; a refused update returns (False, message)
\* and leaves the case (status, updates, updated_at) and its undo stack
\* unchanged.
C12_UpdateValidated ==
    [][cm_ret'.op = "update_case_status" =>
          \A c \in DOMAIN case_store, s \in Statuses \cup {"archived"}, u \in Updaters :
              update_case_status(c, s, u)
                  => /\ cm_ret'.fault = None
                     /\ cm_ret'.ok <=> Allowed(case_store[c].status, s)
                     /\ cm_ret'.ok => case_store'[c].status = s
                     /\ ~cm_ret'.ok => /\ cm_ret'.value # None
                                       /\ UNCHANGED <<case_store, case_history_stack>>]_vars

\* an update of a closed case has just been refused, after created -> active
\* and active -> closed went through
C12_Witness ==
    /\ cm_ret.op = "update_case_status" /\ ~cm_ret.ok
    /\ cm_ret.value = "Invalid transition from closed to active"
    /\ \E c \in DOMAIN case_store :
          /\ case_store[c].status = "closed"
          /\ Len(case_store[c].updates) = 2
          /\ case_store[c].updates[1].new_status = "active"

\* C13: closed is terminal: a case whose status is 'closed' is 'closed' after
\* every CaseManager operation.
C13_ClosedTerminal ==
    [][\A c \in DOMAIN case_store :
           case_store[c].status = "closed" => case_store'[c].status = "closed"]_vars

\* C14: undo is the exact inverse of update, to any depth: while updates of a
\* case remain that have not been undone, undo_last_update succeeds and puts
\* status, updates and updated_at back to what they were before the latest of
\* them.
C14_UndoExactInverse ==
    [][cm_ret'.op = "undo_last_update" => \A c \in DOMAIN case_store :
          (Len(undo_history[c]) > 1 /\ undo_last_update(c))
              => /\ cm_ret'.ok
                 /\ Snapshot(case_store'[c])
                        = undo_history[c][Len(undo_history[c]) - 1]]_vars

\* C15: undo_last_update on an unknown case id or on a case whose undo stack
\* is empty returns (False, message) and leaves the cases and the undo stacks
\* unchanged.
C15_UndoEmptyFails ==
    [][cm_ret'.op = "undo_last_update" => \A c \in CmCaseIds :
          (/\ c \in DOMAIN case_history_stack => case_history_stack[c].top = -1
           /\ undo_last_update(c))
              => /\ cm_ret'.fault = None /\ ~cm_ret'.ok /\ cm_ret'.value # None
                 /\ UNCHANGED <<case_store, case_history_stack>>]_vars

\* the only update of the only case was undone, and a second undo has just
\* been refused
C15_Witness ==
    /\ cm_ret.op = "undo_last_update" /\ ~cm_ret.ok
    /\ cm_ret.value = "No previous state to restore"
    /\ Cardinality(DOMAIN case_store) = 1 /\ clock = 2
    /\ \A c \in DOMAIN case_store :
          case_store[c].updates = << >> /\ case_history_stack[c].top = -1

\* C16: create_case_with_assignment ends with 'success' and the new case
\* assigned to the selected lawyer when that lawyer has fewer than 2
\* non-closed cases; otherwise with 'auto_assigned' and the new case assigned
\* to a lawyer of the requested speciality with fewer than 2 non-closed cases
\* when there is one; otherwise with 'all_busy'.
C16_AssignmentOutcome ==
    [][cm_ret'.op = "create_case_with_assignment" =>
          \A cl \in ClientIds, sel \in LawyerIds, sp \in Specialities :
              create_case_with_assignment(cl, NextHearingDate, sel, sp)
                  => IF ActiveCount(sel) < 2
                     THEN /\ cm_ret'.value = "success"
                          /\ \E n \in DOMAIN case_store' \ DOMAIN case_store :
                                 case_store'[n].lawyer_id = sel
                     ELSE IF FreeSpecialists(sp) # {}
                     THEN /\ cm_ret'.value = "auto_assigned"
                          /\ \E n \in DOMAIN case_store' \ DOMAIN case_store :
                                 case_store'[n].lawyer_id \in FreeSpecialists(sp)
                     ELSE cm_ret'.value = "all_busy"]_vars

C18_LawyerCaseCount ==
    \A l \in LawyerIds :
        CaseManager_get_lawyer_case_count(case_store, l) = [value |-> ActiveCount(l)]

\* C19: no operation of the case manager ends with a fault: every failure is a
\* returned value.
C19_NoFault == cm_ret.fault = None

\* C20: check_access(case_id, user_id, role) is true exactly when the case is
\* stored and either role is 'client' and user_id is the case's client_id or
\* role is 'lawyer' and user_id is the case's lawyer_id.
C20_CheckAccess ==
    \A c \in CmCaseIds, u \in ClientIds \cup LawyerIds \cup {None}, r \in Roles :
        check_access(case_store, c, u, r)
            <=> /\ c \in DOMAIN case_store
                /\ \/ r = "client" /\ u = case_store[c].client_id
                   \/ r = "lawyer" /\ u = case_store[c].lawyer_id

\* access has just been granted while a case is assigned to a lawyer and
\* another case is stored
C20_Witness ==
    /\ cm_ret.op = "check_access" /\ cm_ret.ok
    /\ \E c \in DOMAIN case_store : case_store[c].lawyer_id \in LawyerIds
    /\ Cardinality(DOMAIN case_store) >= 2

\* ---- create_case: urgency and score ---------------------------------------------
\* the whole days from now to the hearing: the one d with
\* d days <= hearing_date - now < d + 1 days
WholeDays(hearing_date, now) ==
    CHOOSE d \in (0 - 2 * MaxHearingDays)..(2 * MaxHearingDays) :
        /\ d * TicksPerDay <= hearing_date - now
        /\ hearing_date - now < (d + 1) * TicksPerDay

\* C21: every case create_case stored has its urgency and its score derived
\* from d, the floor of the days from the clock value read in the call to the
\* hearing date: urgent if d <= 7, high if 8 <= d <= 14, normal if d > 14;
\* the score is max(0, d), never negative, and an overdue case scores 0 and
\* is urgent
C21_UrgencyAndScore ==
    \A c \in DOMAIN case_store :
        LET case == case_store[c]
            d == WholeDays(case.hearing_date, case.created_at)
        IN /\ case.days_until_hearing = d
           /\ (d <= 7 => case.urgency_level = "urgent")
           /\ (8 <= d /\ d <= 14 => case.urgency_level = "high")
           /\ (d > 14 => case.urgency_level = "normal")
           /\ case.priority_score = (IF d > 0 THEN d ELSE 0)
           /\ case.priority_score >= 0
           /\ (d < 0 => case.priority_score = 0 /\ case.urgency_level = "urgent")

\* a case filed after the clock has moved, seven days and a part of a day
\* before its hearing
C21_Witness ==
    \E c \in DOMAIN case_store :
        /\ case_store[c].created_at > 0
        /\ case_store[c].hearing_date - case_store[c].created_at = 7 * TicksPerDay + 1
        /\ case_store[c].urgency_level = "urgent"
        /\ case_store[c].priority_score = 7

\* C22: a case whose hearing is 5 days after the clock value read in
\* create_case is urgent with score 5; 10 days after, high with score 10;
\* 30 days after, normal with score 30; 3 days before, score 0
C22_Examples ==
    \A c \in DOMAIN case_store :
        LET case == case_store[c]
            ahead == case.hearing_date - case.created_at
        IN /\ (ahead = 5 * TicksPerDay =>
                   case.urgency_level = "urgent" /\ case.priority_score = 5)
           /\ (ahead = 10 * TicksPerDay =>
                   case.urgency_level = "high" /\ case.priority_score = 10)
           /\ (ahead = 30 * TicksPerDay =>
                   case.urgency_level = "normal" /\ case.priority_score = 30)
           /\ (ahead = 0 - 3 * TicksPerDay => case.priority_score = 0)

\* a case filed three days after its hearing, after the clock has moved
C22_Witness ==
    \E c \in DOMAIN case_store :
        /\ case_store[c].created_at > 0
        /\ case_store[c].hearing_date = case_store[c].created_at - 3 * TicksPerDay
        /\ case_store[c].priority_score = 0

\* ---- Stack -----------------------------------------------------------------
\* C23: a pop of a stack that holds items returns the item pushed last among
\* those not yet popped, and that item is then gone; a pop or a peek of an
\* empty stack returns None and leaves top and the items as they were
C23_StackLifo ==
    [][/\ (returned'.op = "pop" /\ pushed # << >> =>
              /\ returned'.value = pushed[Len(pushed)]
              /\ pushed' = SubSeq(pushed, 1, Len(pushed) - 1)
              /\ Stack_size(a_stack') = Len(pushed'))
       /\ (returned'.op \in {"pop", "peek"} /\ pushed = << >> =>
              /\ returned'.value = None
              /\ a_stack'.top = a_stack.top
              /\ a_stack'.items = a_stack.items)]_vars

\* a pop has returned "b", pushed after the "a" that is still on the stack
C23_Witness ==
    /\ returned.op = "pop"
    /\ returned.value = "b"
    /\ pushed = <<"a">>
    /\ a_stack.top = 0

\* C24: a push on a stack that holds capacity items returns False and leaves
\* top and every item as it was; size() is never above the capacity, and
\* is_empty() holds exactly when size() is 0
C24_StackFull ==
    [][/\ (returned'.op = "push" /\ Len(pushed) = a_stack.capacity =>
              /\ returned'.flag = FALSE
              /\ a_stack'.top = a_stack.top
              /\ a_stack'.items = a_stack.items)
       /\ Stack_size(a_stack') <= a_stack'.capacity
       /\ (Stack_is_empty(a_stack') <=> Stack_size(a_stack') = 0)]_vars

\* a push has been refused by a full stack
C24_Witness ==
    /\ returned.op = "push"
    /\ returned.flag = FALSE
    /\ Len(pushed) = a_stack.capacity
    /\ Stack_size(a_stack) = a_stack.capacity

\* ---- Queue -----------------------------------------------------------------
\* the items successive dequeues return from a queue, until it is empty
RECURSIVE Drained(_)
Drained(q) ==
    IF q.front = -1 THEN << >>
    ELSE <<Queue_dequeue_item(q)>> \o Drained(Queue_dequeue(q))

\* the indices of the queue have wrapped: the rear lies before the front
Wrapped(q) == q.front # -1 /\ q.rear < q.front

\* C25: an enqueue on a queue with room succeeds and puts the item behind all
\* the items waiting; a dequeue of a queue that holds items returns the item
\* enqueued first among those not yet dequeued and removes that one only; so
\* the dequeued items are the enqueued ones in their order, none lost and none
\* twice, whether or not the indices have wrapped
C25_QueueFifo ==
    [][/\ (returned'.op = "enqueue" /\ Len(waiting) < a_queue.capacity =>
              /\ returned'.flag = TRUE
              /\ Drained(a_queue') = Drained(a_queue) \o <<waiting'[Len(waiting')]>>)
       /\ (returned'.op = "dequeue" /\ waiting # << >> =>
              /\ returned'.value = Head(waiting)
              /\ Drained(a_queue') = Tail(waiting))
       /\ Queue_size(a_queue') = Len(waiting')]_vars

\* a dequeue has returned the oldest item of a queue whose indices had
\* wrapped, and newer items wait behind it
C25_Witness ==
    /\ returned.op = "dequeue"
    /\ returned.value = "b"
    /\ Wrapped(a_queue)
    /\ waiting = <<"c", "a">>

\* C26: an enqueue on a queue that holds capacity items returns False, a
\* dequeue of an empty queue returns None, and both leave front, rear, count
\* and the items as they were
C26_QueueFullEmpty ==
    [][/\ (returned'.op = "enqueue" /\ Len(waiting) = a_queue.capacity =>
              returned'.flag = FALSE /\ a_queue' = a_queue)
       /\ (returned'.op = "dequeue" /\ waiting = << >> =>
              returned'.value = None /\ a_queue' = a_queue)]_vars

\* an enqueue has been refused by a full queue whose indices had wrapped
C26_Witness ==
    /\ returned.op = "enqueue"
    /\ returned.flag = FALSE
    /\ Queue_size(a_queue) = a_queue.capacity
    /\ Wrapped(a_queue)

\* C27: get_all returns the items of the queue in the order successive
\* dequeues return them, as many as size(), and leaves front, rear, count and
\* the items as they were
C27_QueueGetAll ==
    [][returned'.op = "get_all" =>
          /\ returned'.list = Drained(a_queue)
          /\ returned'.list = waiting
          /\ Len(returned'.list) = Queue_size(a_queue)
          /\ a_queue' = a_queue]_vars

\* get_all has listed a queue whose indices had wrapped
C27_Witness ==
    /\ returned.op = "get_all"
    /\ returned.list = <<"b", "c", "a">>
    /\ Wrapped(a_queue)

\* ---- PriorityQueue -------------------------------------------------------------
\* the items of a sequence of <<priority, item>> pairs by priority, pairs of
\* one priority in the order of the sequence
RECURSIVE Served(_)
Served(pairs) ==
    IF pairs = << >> THEN << >>
    ELSE <<pairs[Best(pairs)][2]>> \o Served(WithoutBest(pairs))

\* the items successive dequeues return from a priority queue, until it is empty
RECURSIVE DrainedHeap(_)
DrainedHeap(pq) ==
    IF pq.heap_size = 0 THEN << >>
    ELSE <<PriorityQueue_dequeue_item(pq)>> \o DrainedHeap(PriorityQueue_dequeue(pq))

\* C28: a dequeue of a priority queue that holds items returns the item with
\* the lowest priority number among those held, and of several with that
\* number the one enqueued first; the others stay
C28_LowestFirstStable ==
    [][returned'.op = "dequeue" /\ entered # << >> =>
          /\ returned'.value = entered[Best(entered)][2]
          /\ \A j \in 1..Len(entered) : entered[Best(entered)][1] <= entered[j][1]
          /\ \A j \in 1..Len(entered) :
                 j < Best(entered) => entered[j][1] > entered[Best(entered)][1]
          /\ a_heap'.heap_size = Len(entered) - 1]_vars

\* a dequeue has returned "b", the earliest left of priority 1; an item of
\* priority 2 enqueued before it and one of priority 1 enqueued after it stay
C28_Witness ==
    /\ returned.op = "dequeue"
    /\ returned.value = "b"
    /\ entered = <<<<2, "a">>, <<1, "a">>>>
    /\ a_heap.entry_counter >= 4

\* C29: get_all returns the items held by priority number, and those of one
\* number in the order they were enqueued; that is the sequence successive
\* dequeues return; the heap array, heap_size and entry_counter stay as they
\* were
C29_GetAllSorted ==
    [][returned'.op = "get_all" =>
          /\ returned'.list = Served(entered)
          /\ returned'.list = DrainedHeap(a_heap)
          /\ a_heap' = a_heap]_vars

\* get_all has listed a queue whose heap array is not in the order served
C29_Witness ==
    /\ returned.op = "get_all"
    /\ a_heap.heap_size = 4
    /\ returned.list # [k \in 1..4 |-> a_heap.heap[k - 1][3]]
    /\ \E i \in 1..3 : entered[i][1] > entered[i + 1][1]

\* an entry comes before another in (priority, counter) order
Before(entry1, entry2) ==
    \/ entry1[1] < entry2[1]
    \/ entry1[1] = entry2[1] /\ entry1[2] < entry2[2]

\* C35: in every state of a priority queue no entry comes before the entry at
\* its parent index, so no entry comes before the root, and peek() returns
\* the item of the root; no two entries held have the same counter
C35_HeapOrder ==
    /\ \A i \in 1..(a_heap.heap_size - 1) :
           ~Before(a_heap.heap[i], a_heap.heap[(i - 1) \div 2])
    /\ \A i \in 0..(a_heap.heap_size - 1) :
           /\ ~Before(a_heap.heap[i], a_heap.heap[0])
           /\ \A j \in 0..(a_heap.heap_size - 1) :
                  i # j => a_heap.heap[i][2] # a_heap.heap[j][2]
    /\ a_heap.heap_size > 0 => PriorityQueue_peek(a_heap) = a_heap.heap[0][3]
    /\ (returned.op = "peek" /\ entered # << >> =>
           returned.value = entered[Best(entered)][2])

\* a full heap after a dequeue, its root of priority 1 enqueued after an
\* entry of priority 2 that lies below it, and peek has returned its item
C35_Witness ==
    /\ returned.op = "peek"
    /\ a_heap.heap_size = 4
    /\ a_heap.entry_counter = 5
    /\ a_heap.heap[0][1] = 1
    /\ returned.value = a_heap.heap[0][3]
    /\ \E i \in 1..3 : a_heap.heap[i][1] = 2 /\ a_heap.heap[i][2] < a_heap.heap[0][2]

\* ---- HashTable -----------------------------------------------------------------
\* the number of nodes in all the chains of a table
RECURSIVE NodesFrom(_, _)
NodesFrom(ht, i) == IF i >= ht.size THEN 0 ELSE Len(ht.table[i]) + NodesFrom(ht, i + 1)

\* C30: after any puts and removes the table is the map they describe: get of
\* a key returns the value of its last put not followed by a remove, None if
\* there is none; a put on a key present changes its value and adds no entry;
\* remove returns True exactly for a key present; count is the number of keys
\* present, and there is one node for each
C30_HashTableIsMap ==
    /\ \A key \in Keys :
           /\ HashTable_get(a_table, key) = DictGet(mapping, key, None)
           /\ HashTable_remove_returns(a_table, key) = (key \in DOMAIN mapping)
           /\ key \in DOMAIN mapping =>
                  \A value \in Items :
                      /\ HashTable_put(a_table, key, value).count = a_table.count
                      /\ NodesFrom(HashTable_put(a_table, key, value), 0) = a_table.count
    /\ a_table.count = Cardinality(DOMAIN mapping)
    /\ NodesFrom(a_table, 0) = Cardinality(DOMAIN mapping)

\* a key has been removed from a table of three keys in which "a", with the
\* value "b", is the second node of a chain of two
C30_Witness ==
    /\ returned.op = "remove"
    /\ returned.flag = TRUE
    /\ a_table.count = 3
    /\ \E i \in 0..(a_table.size - 1) :
           /\ Len(a_table.table[i]) = 2
           /\ a_table.table[i][2].value = "b"
           /\ a_table.table[i][2].key = <<97>>

\* the keys of a table that share their bucket with two others
Crowded(ht) ==
    {key \in Keys : Len(ht.table[HashTable_hash(ht, key)]) = 3
                    /\ HashTable_find(ht.table[HashTable_hash(ht, key)], key) # 0}

\* C31: keys that share a bucket are each retrievable with their own value;
\* the removal of any key, at the head, in the middle or at the end of its
\* chain, takes one node away and leaves every other key retrievable with its
\* value, and the key itself not found; the put of a key leaves every other
\* key with its value
C31_CollidingKeys ==
    \A key \in Keys :
        /\ HashTable_get(HashTable_remove(a_table, key), key) = None
        /\ key \in DOMAIN mapping =>
               NodesFrom(HashTable_remove(a_table, key), 0) = NodesFrom(a_table, 0) - 1
        /\ \A other \in Keys \ {key} :
               /\ HashTable_get(a_table, other) = DictGet(mapping, other, None)
               /\ HashTable_get(HashTable_remove(a_table, key), other)
                      = DictGet(mapping, other, None)
               /\ \A value \in Items :
                      HashTable_get(HashTable_put(a_table, key, value), other)
                          = DictGet(mapping, other, None)

\* after a removal, three keys share a bucket and hold three values
C31_Witness ==
    /\ returned.op = "remove"
    /\ returned.flag = TRUE
    /\ Cardinality(Crowded(a_table)) = 3
    /\ Cardinality({mapping[key] : key \in Crowded(a_table)}) = 3

\* the sum of character code times position over a key, from its last
\* character back to its first
RECURSIVE WeightedSum(_)
WeightedSum(key) ==
    IF key = << >> THEN 0
    ELSE key[Len(key)] * Len(key) + WeightedSum(SubSeq(key, 1, Len(key) - 1))

\* C32: _hash of a key is the sum of character code times 1-based position
\* modulo the size of the table, whatever the table holds; it lies in
\* 0..size-1 and is 0 for the empty key
C32_Hash ==
    /\ \A key \in Keys : HashTable_hash(a_table, key) = WeightedSum(key) % a_table.size
    /\ returned.op = "_hash" =>
           /\ returned.index = WeightedSum(returned.key) % a_table.size
           /\ returned.index \in 0..(a_table.size - 1)
           /\ (returned.key = << >> => returned.index = 0)

\* _hash has returned the bucket of "ba", 98 + 2 * 97 modulo the size, on a
\* table that holds keys
C32_Witness ==
    /\ returned.op = "_hash"
    /\ returned.key = <<98, 97>>
    /\ returned.index = 292 % a_table.size
    /\ a_table.count > 0

====
